---- MODULE Spec2Model ----
(***************************************************************************)
(* A model of the metadata-driven schema generator, relationship resolver *)
(* and query condition compiler of mikro-orm:                              *)
(*   - SchemaGenerator (packages/knex/src/query/QueryBuilderHelper.ts):    *)
(*     commit order of the root entities, create/drop/update DDL, the      *)
(*     table difference (create/update/remove/rename/addIndex/dropIndex);  *)
(*   - MetadataDiscovery (packages/core/src/metadata/MetadataDiscovery.ts):*)
(*     join-column derivation, pivot-entity synthesis, single table        *)
(*     inheritance;                                                        *)
(*   - QueryBuilderHelper (packages/knex/src/query/QueryBuilderHelper.ts): *)
(*     conditions of WHERE/HAVING and of joins, regular expressions,       *)
(*     locking.                                                            *)
(* Collaborators whose code is not part of the sources at hand (the        *)
(* CommitOrderCalculator, the platform's SchemaHelper, the naming          *)
(* strategy, the database executing DDL, knex, Utils) are modelled from    *)
(* the design description and are marked as such where they are defined.   *)
(***************************************************************************)
EXTENDS Integers, Sequences, FiniteSets, TLC

VARIABLES
    metadata,   \* MetadataStorage: entity name -> EntityMetadata
    entities,   \* the entity names, in the order of Object.values(metadata.getAll())
    schema,     \* DatabaseSchema snapshot: the live tables (a sequence of DatabaseTable)
    platform,   \* the injected platform capability flags
    ddl,        \* the statements returned by the last generator call
    diffs,      \* the TableDifference updateTable computed per entity in the last update
    err,        \* the error the last call raised ("none" when it returned)
    pc,         \* the last operation that ran
    args,       \* the arguments the generator is called with (safe, dropTables, ...)
    queue,      \* MetadataDiscovery: the entities discover() still has to process
    condition,  \* QueryBuilderHelper: the condition tree the caller passes in
    queries,    \* QueryBuilderHelper: the knex builders the helper has written to
    row,        \* the database: the stored row of the versioned entity
    em          \* the version of the entity each EntityManager holds

vars == <<metadata, entities, schema, platform, ddl, diffs, err, pc, args, queue,
          condition, queries, row, em>>

\* a value of a query condition together with the key it is stored under
\* (kind: scalar, null, regexp, array, object, raw; items: the members of an
\* array, the entries of an object, the characters of a regexp source)
Node(kind, key, atom, items) == [kind |-> kind, key |-> key, atom |-> atom, items |-> items]

\* the empty condition {}
NoCondition == Node("object", "", "", <<>>)

\* no row is stored, no EntityManager holds the entity
NoRow == <<>>
NoManagers == <<>>

----------------------------------------------------------------------------
(* Bounds of the model *)

\* at most this many relation properties in a drawn dependency graph
MaxRelations == 3

----------------------------------------------------------------------------
(* Utils: the array helpers the code uses *)

SeqToSet(s) == {s[i] : i \in DOMAIN s}

\* Array.prototype.includes
Includes(s, x) == \E i \in DOMAIN s : s[i] = x

\* Array.prototype.indexOf, 0-based, -1 when absent
IndexOf(s, x) ==
    IF Includes(s, x) THEN (CHOOSE i \in DOMAIN s : s[i] = x /\ \A j \in 1..(i - 1) : s[j] # x) - 1
    ELSE -1

\* Array.prototype.splice(start, 1): a negative start counts from the end
SpliceOne(s, start) ==
    LET n == Len(s)
        at == IF start < 0 THEN (IF n + start < 0 THEN 0 ELSE n + start) ELSE start
    IN  IF at >= n THEN s
        ELSE [i \in 1..(n - 1) |-> IF i <= at THEN s[i] ELSE s[i + 1]]

\* Array.prototype.reverse
Reverse(s) == [i \in 1..Len(s) |-> s[Len(s) + 1 - i]]

RECURSIVE Flatten(_)
\* Utils.flatten
Flatten(ss) == IF ss = <<>> THEN <<>> ELSE Head(ss) \o Flatten(Tail(ss))

RECURSIVE Join(_, _)
\* Array.prototype.join
Join(s, sep) ==
    IF s = <<>> THEN ""
    ELSE IF Len(s) = 1 THEN s[1]
    ELSE s[1] \o sep \o Join(Tail(s), sep)

\* all orderings of a finite set, as sequences
Permutations_(S) ==
    {p \in [1..Cardinality(S) -> S] : \A i, j \in 1..Cardinality(S) : i # j => p[i] # p[j]}

\* position of x in the sequence s (0 when absent)
PosOf(s, x) == IF Includes(s, x) THEN CHOOSE i \in DOMAIN s : s[i] = x ELSE 0

----------------------------------------------------------------------------
(* The metadata model: EntityProperty and EntityMetadata *)

SCALAR == "scalar"
MANY_TO_ONE == "m:1"
ONE_TO_ONE == "1:1"
ONE_TO_MANY == "1:m"
MANY_TO_MANY == "m:n"
EMBEDDED == "embedded"

NoDefault == ""

\* a resolved EntityProperty as the schema generator reads it
Prop(name, reference, type, owner, nullable, primary, fieldNames, columnTypes) ==
    [name |-> name, reference |-> reference, type |-> type, owner |-> owner,
     nullable |-> nullable, primary |-> primary, persist |-> TRUE, object |-> FALSE,
     fieldNames |-> fieldNames,
     joinColumns |-> IF reference = SCALAR THEN <<>> ELSE fieldNames,
     columnTypes |-> columnTypes, defaultRaw |-> NoDefault,
     index |-> "unset", unique |-> "unset",
     referencedTableName |-> "", referencedColumnNames |-> <<>>]

\* a resolved EntityMetadata as the schema generator reads it
Meta(name, collection, root, props) ==
    [name |-> name, collection |-> collection, root |-> root,
     embeddable |-> FALSE, pivotTable |-> FALSE,
     props |-> props,
     primaryKeys |-> [i \in 1..Len(SelectSeq(props, LAMBDA p : p.primary)) |->
                        SelectSeq(props, LAMBDA p : p.primary)[i].name],
     compositePK |-> Len(SelectSeq(props, LAMBDA p : p.primary)) > 1,
     indexes |-> <<>>, uniques |-> <<>>]

\* meta.properties[name]
PropertyOf(meta, name) == CHOOSE p \in SeqToSet(meta.props) : p.name = name

\* meta.relations
Relations(meta) == SelectSeq(meta.props, LAMBDA p : p.reference # SCALAR)

----------------------------------------------------------------------------
(* The live schema: DatabaseTable and Column *)

NoFK == [columnName |-> "", constraintName |-> "", referencedTableName |-> "",
         referencedColumnName |-> ""]

\* Column{name, type, nullable, default, optional foreign key, indexes}
Column(name, type, nullable, default, fk, indexes) ==
    [name |-> name, type |-> type, nullable |-> nullable, defaultValue |-> default,
     fk |-> fk, indexes |-> indexes]

\* an entry of column.indexes
ColumnIndex(columnName, keyName, unique) ==
    [columnName |-> columnName, keyName |-> keyName, unique |-> unique]

\* a foreign key of a live column
ForeignKey(columnName, table, referencedColumnName) ==
    [columnName |-> columnName, constraintName |-> columnName \o "_foreign",
     referencedTableName |-> table, referencedColumnName |-> referencedColumnName]

\* schema.getTable(name): the live table, or NoTable
NoTable == [name |-> "", columns |-> <<>>]

HasTable(sch, name) == \E i \in DOMAIN sch : sch[i].name = name

getTable(sch, name) ==
    IF HasTable(sch, name) THEN sch[CHOOSE i \in DOMAIN sch : sch[i].name = name]
    ELSE NoTable

\* table.getColumn(name)
HasColumn(table, name) == \E i \in DOMAIN table.columns : table.columns[i].name = name

getColumn(table, name) ==
    table.columns[CHOOSE i \in DOMAIN table.columns : table.columns[i].name = name]

\* every entry of every column's indexes, in column order
AllColumnIndexes(table) == Flatten([i \in DOMAIN table.columns |-> table.columns[i].indexes])

RECURSIVE Distinct(_)
\* the distinct elements of a sequence, in order of first appearance
Distinct(s) ==
    IF s = <<>> THEN <<>>
    ELSE LET front == Distinct(SubSeq(s, 1, Len(s) - 1))
         IN  IF Includes(front, s[Len(s)]) THEN front ELSE Append(front, s[Len(s)])

\* Object.keys(table.getIndexes())
IndexNames(table) ==
    Distinct([i \in DOMAIN AllColumnIndexes(table) |-> AllColumnIndexes(table)[i].keyName])

\* table.getIndexes()[name]
IndexEntries(table, name) == SelectSeq(AllColumnIndexes(table), LAMBDA e : e.keyName = name)

----------------------------------------------------------------------------
(* The platform's SchemaHelper *)

\* helper.getIndexName(tableName, columns, type)
getHelperIndexName(tableName, columns, type) ==
    tableName \o "_" \o Join(columns, "_") \o "_" \o type

\* helper.isImplicitIndex(name): the primary-key index of a table
isImplicitIndex(name) == name = "primary"

\* helper.isSame(prop, column, idx): the per-attribute sameness flags
isSame(prop, column, idx) ==
    LET sameTypes == (idx + 1) \in DOMAIN prop.columnTypes
                        /\ column.type = prop.columnTypes[idx + 1]
        sameNullable == column.nullable = prop.nullable
        sameDefault == column.defaultValue = prop.defaultRaw
        sameIndex == IF prop.reference = SCALAR THEN TRUE
                     ELSE /\ column.fk # NoFK
                          /\ column.fk.referencedTableName = prop.referencedTableName
                          /\ Includes(prop.referencedColumnNames, column.fk.referencedColumnName)
    IN  [all |-> sameTypes /\ sameNullable /\ sameDefault /\ sameIndex,
         sameTypes |-> sameTypes, sameNullable |-> sameNullable,
         sameDefault |-> sameDefault, sameIndex |-> sameIndex]

----------------------------------------------------------------------------
(* The CommitOrderCalculator *)

\* calc.addDependency(from, to, weight): `from` has to exist before `to`
Dependency(from, to, weight) == [from |-> from, to |-> to, weight |-> weight]

RECURSIVE Closure(_, _)
\* the pairs joined by a path of at least one edge (n rounds of squaring)
Closure(R, n) ==
    IF n = 0 THEN R
    ELSE Closure(R \cup {<<x[1], y[2]>> : <<x, y>> \in {z \in R \X R : z[1][2] = z[2][1]}}, n - 1)

EdgePairs(deps) == {<<d.from, d.to>> : d \in deps}

\* a cycle made of weight-1 edges only
HasRequiredCycle(nodes, deps) ==
    \E x \in nodes :
        <<x, x>> \in Closure(EdgePairs({d \in deps : d.weight = 1}), Cardinality(nodes))

\* the edge lies on a cycle of the graph
OnCycle(nodes, deps, d) ==
    d.from = d.to \/ <<d.to, d.from>> \in Closure(EdgePairs(deps), Cardinality(nodes))

\* calc.sort(): the orders a dependency-respecting sort may return; a weight-0
\* edge on a cycle is deferrable and blocks nothing; no order when a cycle of
\* weight-1 edges exists
CalcSort(nodes, deps) ==
    IF HasRequiredCycle(nodes, deps) THEN {}
    ELSE LET blocking == {d \in deps : d.weight = 1 \/ ~OnCycle(nodes, deps, d)}
         IN  {o \in Permutations_(nodes) :
                 \A d \in blocking : PosOf(o, d.from) < PosOf(o, d.to)}

----------------------------------------------------------------------------
(* SchemaGenerator: the commit order *)

\* the filter of getOrderedMetadata: root entities that are no embeddables
RootEntities(md, ents) ==
    SelectSeq(ents, LAMBDA e : (md[e].root = "" \/ md[e].root = e) /\ ~md[e].embeddable)

\* an addCommitDependency that takes the entity for the target
addCommitDependencySwapped(prop, entityName) ==
    IF ~(prop.reference = ONE_TO_ONE /\ prop.owner) /\ prop.reference # MANY_TO_ONE THEN {}
    ELSE {Dependency(entityName, prop.type, IF prop.nullable THEN 0 ELSE 1)}

\* an addCommitDependency that gives every edge the weight 0
addCommitDependencyNeverRequired(prop, entityName) ==
    IF ~(prop.reference = ONE_TO_ONE /\ prop.owner) /\ prop.reference # MANY_TO_ONE THEN {}
    ELSE {Dependency(prop.type, entityName, 0)}

\* an addCommitDependency that gives every edge the weight 1
addCommitDependencyAlwaysRequired(prop, entityName) ==
    IF ~(prop.reference = ONE_TO_ONE /\ prop.owner) /\ prop.reference # MANY_TO_ONE THEN {}
    ELSE {Dependency(prop.type, entityName, 1)}

\* addCommitDependency(calc, prop, entityName): the edge a property adds, if any
addCommitDependency(prop, entityName) ==
    IF ~(prop.reference = ONE_TO_ONE /\ prop.owner) /\ prop.reference # MANY_TO_ONE THEN {}
    ELSE {Dependency(prop.type, entityName, IF prop.nullable THEN 0 ELSE 1)}

\* the dependencies getOrderedMetadata registers: one per property whose type is a node
CommitDependencies(md, ents) ==
    LET nodes == SeqToSet(RootEntities(md, ents))
    IN  UNION {UNION {addCommitDependency(p, e) :
                        p \in {q \in SeqToSet(md[e].props) : q.type \in nodes}} : e \in nodes}

\* getOrderedMetadata(): the possible results, an order or the calculator's error
getOrderedMetadata(md, ents) ==
    LET nodes == SeqToSet(RootEntities(md, ents))
        orders == CalcSort(nodes, CommitDependencies(md, ents))
    IN  IF orders = {} THEN {[err |-> "SchemaDependencyError", order |-> <<>>]}
        ELSE {[err |-> "none", order |-> o] : o \in orders}

----------------------------------------------------------------------------
(* SchemaGenerator: the statements it builds *)

\* one builder call of the generated DDL; `pass` is the loop of the generator
\* that emitted it: "columns" (tables and columns), "fks", "indexes", "tables"
\* (the drop of whole tables)
Stmt(pass, op, table, columns) ==
    [pass |-> pass, op |-> op, table |-> table, columns |-> columns,
     type |-> "", nullable |-> "keep", defaultTo |-> "keep", primary |-> FALSE,
     index |-> "", uniqueKey |-> "", to |-> "", refs |-> <<>>, name |-> "",
     alter |-> FALSE]

\* the `alter` argument of createTableColumn: undefined, {} or an IsSame record
NoAlter == [given |-> FALSE, flags |-> FALSE, sameTypes |-> FALSE, sameNullable |-> FALSE,
            sameDefault |-> FALSE, sameIndex |-> FALSE]

EmptyAlter == [NoAlter EXCEPT !.given = TRUE]

DiffAlter(diff) ==
    [given |-> TRUE, flags |-> TRUE, sameTypes |-> diff.sameTypes,
     sameNullable |-> diff.sameNullable, sameDefault |-> diff.sameDefault,
     sameIndex |-> diff.sameIndex]

\* Utils.isString(name) for an index/unique option: a custom name
IsName(v) == v \notin {"unset", "true", "false"}

\* truthiness of an index/unique option
Truthy(v) == v \notin {"unset", "false"}

\* getIndexName(meta, prop, type, columnNames)
getIndexName(meta, prop, type, columnNames) ==
    LET value == IF type = "unique" THEN prop.unique ELSE prop.index
    IN  IF IsName(value) THEN value
        ELSE getHelperIndexName(meta.collection, columnNames, type)

\* configureColumn(meta, prop, col, columnName, pkProp, alter)
configureColumn(meta, prop, col, columnName, alter) ==
    LET nullable == (alter.given /\ platform.requiresNullableForAlteringColumn) \/ prop.nullable
        sameNullable == alter.given /\ alter.flags /\ alter.sameNullable
        indexed == IF prop.index # "unset" THEN Truthy(prop.index)
                   ELSE prop.reference \notin {SCALAR, EMBEDDED} /\ platform.indexForeignKeys
        index == indexed /\ ~(alter.given /\ alter.sameIndex)
        sameDefault == IF alter.given /\ alter.flags THEN alter.sameDefault
                       ELSE prop.defaultRaw = NoDefault
        composite == Len(prop.fieldNames) > 1
    IN  [col EXCEPT
            !.nullable = IF sameNullable THEN "keep" ELSE IF nullable THEN "null" ELSE "notnull",
            !.primary = prop.primary /\ ~meta.compositePK,
            !.index = IF ~composite /\ index
                      THEN getIndexName(meta, prop, "index", <<columnName>>) ELSE "",
            !.uniqueKey = IF ~composite /\ Truthy(prop.unique)
                          THEN getIndexName(meta, prop, "unique", <<columnName>>) ELSE "",
            !.defaultTo = IF sameDefault THEN "keep" ELSE prop.defaultRaw]

\* createSimpleTableColumn(table, meta, prop, alter)
createSimpleTableColumn(pass, meta, prop, alter) ==
    IF prop.primary /\ ~meta.compositePK /\ prop.type = "number"
    THEN [Stmt(pass, "addColumn", meta.collection, <<prop.fieldNames[1]>>) EXCEPT
            !.type = prop.columnTypes[1], !.nullable = "notnull", !.primary = TRUE]
    ELSE configureColumn(meta, prop,
            [Stmt(pass, "addColumn", meta.collection, <<prop.fieldNames[1]>>) EXCEPT
                !.type = prop.columnTypes[1]],
            prop.fieldNames[1], alter)

\* createTableColumn(table, meta, prop, alter): one column per primary key of the target
createTableColumn(pass, md, meta, prop, alter) ==
    IF prop.reference = SCALAR \/ (prop.reference = EMBEDDED /\ prop.object)
    THEN <<createSimpleTableColumn(pass, meta, prop, alter)>>
    ELSE LET meta2 == md[prop.type]
         IN  [idx \in DOMAIN meta2.primaryKeys |->
                configureColumn(meta, prop,
                    [Stmt(pass, "addColumn", meta.collection, <<prop.joinColumns[idx]>>) EXCEPT
                        !.type = PropertyOf(meta2, meta2.primaryKeys[idx]).columnTypes[1]],
                    prop.joinColumns[idx], alter)]

\* shouldHaveColumn(meta, prop, update)
shouldHaveColumn(meta, prop, update) ==
    IF prop.persist = FALSE THEN FALSE
    ELSE IF meta.pivotTable \/ prop.object THEN TRUE
    ELSE IF prop.reference # SCALAR /\ ~prop.primary
            /\ ~platform.supportsSchemaConstraints /\ ~update THEN FALSE
    ELSE prop.reference \in {SCALAR, MANY_TO_ONE}
            \/ (prop.reference = ONE_TO_ONE /\ prop.owner)

\* createTable(meta)
createTable(pass, md, meta) ==
    LET props == SelectSeq(meta.props, LAMBDA p : shouldHaveColumn(meta, p, FALSE))
    IN  <<Stmt(pass, "createTable", meta.collection, <<>>)>>
        \o Flatten([i \in DOMAIN props |-> createTableColumn(pass, md, meta, props[i], NoAlter)])
        \o (IF meta.compositePK
            THEN <<Stmt(pass, "primary", meta.collection,
                        Flatten([i \in DOMAIN meta.primaryKeys |->
                                    PropertyOf(meta, meta.primaryKeys[i]).fieldNames]))>>
            ELSE <<>>)

\* createIndex(table, meta, index, unique)
createIndex(pass, meta, index, unique) ==
    LET properties == Flatten([i \in DOMAIN index.properties |->
                                PropertyOf(meta, index.properties[i]).fieldNames])
        name == IF IsName(index.name) THEN index.name
                ELSE getHelperIndexName(meta.collection, properties,
                                        IF unique THEN "unique" ELSE "index")
    IN  [Stmt(pass, IF unique THEN "unique" ELSE "index", meta.collection, properties)
            EXCEPT !.name = name]

\* the third loop of getCreateSchemaSQL: meta.indexes, then meta.uniques
createIndexes(pass, meta) ==
    [i \in DOMAIN meta.indexes |-> createIndex(pass, meta, meta.indexes[i], FALSE)]
    \o [i \in DOMAIN meta.uniques |-> createIndex(pass, meta, meta.uniques[i], TRUE)]

\* dropTable(name)
dropTable(pass, name) == Stmt(pass, "dropTable", name, <<>>)

\* createForeignKeyReference(table, prop)
createForeignKeyReference(pass, meta, prop) ==
    [Stmt(pass, "foreign", meta.collection, prop.fieldNames) EXCEPT
        !.refs = prop.referencedColumnNames, !.to = prop.referencedTableName]

\* a createForeignKey that asks no platform and always adds the constraint
createForeignKeyOnEveryPlatform(pass, md, meta, prop, diff) ==
    <<createForeignKeyReference(pass, meta, prop)>>

\* createForeignKey(table, meta, prop, diff): without schema constraints the
\* column itself is created here
createForeignKey(pass, md, meta, prop, diff) ==
    IF platform.supportsSchemaConstraints
    THEN <<createForeignKeyReference(pass, meta, prop)>>
    ELSE LET columnAlreadyCreated == prop.primary /\ prop.reference # SCALAR /\ ~diff.given
         IN  IF ~meta.pivotTable /\ ~columnAlreadyCreated
             THEN createTableColumn(pass, md, meta, prop, IF diff.given THEN diff ELSE EmptyAlter)
             ELSE <<>>

\* createForeignKeys(table, meta, props); `all` stands for an omitted props argument
createForeignKeys(pass, md, meta, all, props) ==
    LET rels == SelectSeq(Relations(meta), LAMBDA p :
                    /\ all \/ Includes(props, p)
                    /\ p.reference = MANY_TO_ONE \/ (p.reference = ONE_TO_ONE /\ p.owner))
    IN  Flatten([i \in DOMAIN rels |-> createForeignKey(pass, md, meta, rels[i], NoAlter)])

----------------------------------------------------------------------------
(* SchemaGenerator: the table difference *)

\* computeColumnDifference(table, prop, create, update): what one property
\* appends to create and to update, one look-up per join column or field name
computeColumnDifference(table, prop) ==
    LET names == IF prop.reference \in {MANY_TO_ONE, ONE_TO_ONE}
                 THEN prop.joinColumns ELSE prop.fieldNames
        missing(i) == ~HasColumn(table, names[i])
        differs(i) == /\ HasColumn(table, names[i])
                      /\ platform.supportsColumnAlter
                      /\ ~isSame(prop, getColumn(table, names[i]), i - 1).all
    IN  [create |-> Flatten([i \in DOMAIN names |-> IF missing(i) THEN <<prop>> ELSE <<>>]),
         update |-> Flatten([i \in DOMAIN names |->
                        IF differs(i)
                        THEN <<[prop |-> prop, column |-> getColumn(table, names[i]),
                                diff |-> isSame(prop, getColumn(table, names[i]), i - 1)]>>
                        ELSE <<>>])]

\* the first live column of `remove` that, renamed to fieldName, is the same as prop
RenameMatch(prop, fieldName, remove) ==
    SelectSeq(remove, LAMBDA column : isSame(prop, [column EXCEPT !.name = fieldName], 0).all)

RECURSIVE SpliceRenamed(_, _, _)
\* renamed.forEach(prop => { create.splice(...); remove.splice(...) })
SpliceRenamed(create, remove, renamed) ==
    IF renamed = <<>> THEN [create |-> create, remove |-> remove]
    ELSE SpliceRenamed(SpliceOne(create, IndexOf(create, Head(renamed).to)),
                       SpliceOne(remove, IndexOf(remove, Head(renamed).from)),
                       Tail(renamed))

\* findRenamedColumns(create, remove): the renames, and create and remove as it leaves them
findRenamedColumns(create, remove) ==
    LET renamed == Flatten([i \in DOMAIN create |->
                        Flatten([j \in DOMAIN create[i].fieldNames |->
                            LET match == RenameMatch(create[i], create[i].fieldNames[j], remove)
                            IN  IF match # <<>> THEN <<[from |-> match[1], to |-> create[i]]>>
                                ELSE <<>>])])
        left == SpliceRenamed(create, remove, renamed)
    IN  [rename |-> renamed, create |-> left.create, remove |-> left.remove]

\* an entry of addIndex / dropIndex
IndexDef(keyName, columnNames, unique) ==
    [keyName |-> keyName, columnNames |-> columnNames, unique |-> unique]

\* idxName(name, columns, type) of findIndexDifference
idxName(meta, name, columns, type) ==
    IF IsName(name) THEN name ELSE getHelperIndexName(meta.collection, columns, type)

\* the names findIndexDifference expects the table to have
expectedIndexes(meta) ==
    LET declared(list, type) ==
            {idxName(meta, list[i].name,
                     Flatten([k \in DOMAIN list[i].properties |->
                                PropertyOf(meta, list[i].properties[k]).fieldNames]),
                     type) : i \in DOMAIN list}
        ofProp(prop) ==
            (IF Truthy(prop.index) THEN {idxName(meta, prop.index, prop.fieldNames, "index")}
             ELSE {})
            \cup (IF Truthy(prop.unique)
                  THEN {idxName(meta, prop.unique, prop.fieldNames, "unique")} ELSE {})
            \cup (IF prop.reference \in {ONE_TO_ONE, MANY_TO_ONE}
                  THEN {getHelperIndexName(meta.collection, prop.fieldNames, "index"),
                        getHelperIndexName(meta.collection, prop.fieldNames, "foreign")}
                  ELSE {})
    IN  declared(meta.indexes, "index") \cup declared(meta.uniques, "unique")
        \cup UNION {ofProp(meta.props[i]) : i \in DOMAIN meta.props}

\* a findIndexDifference that adds the missing uniques only
findIndexDifferenceOfUniques(meta, table, remove) ==
    LET existing == IndexNames(table)
        toAdd(list, unique) ==
            Flatten([i \in DOMAIN list |->
                LET properties == Flatten([k \in DOMAIN list[i].properties |->
                                    PropertyOf(meta, list[i].properties[k]).fieldNames])
                    name == idxName(meta, list[i].name, properties,
                                    IF unique THEN "unique" ELSE "index")
                IN  IF ~Includes(existing, name)
                    THEN <<IndexDef(name, properties, unique)>> ELSE <<>>])
        willBeRemoved(name) ==
            \E c \in DOMAIN remove : \E e \in DOMAIN IndexEntries(table, name) :
                IndexEntries(table, name)[e].columnName = remove[c].name
        toDrop ==
            Flatten([i \in DOMAIN existing |->
                IF existing[i] \notin expectedIndexes(meta) /\ ~isImplicitIndex(existing[i])
                        /\ ~willBeRemoved(existing[i])
                THEN <<IndexDef(existing[i],
                                [e \in DOMAIN IndexEntries(table, existing[i]) |->
                                    IndexEntries(table, existing[i])[e].columnName],
                                IndexEntries(table, existing[i])[1].unique)>>
                ELSE <<>>])
    IN  [addIndex |-> toAdd(meta.uniques, TRUE),
         dropIndex |-> toDrop]

\* findIndexDifference(meta, table, remove)
findIndexDifference(meta, table, remove) ==
    LET existing == IndexNames(table)
        toAdd(list, unique) ==
            Flatten([i \in DOMAIN list |->
                LET properties == Flatten([k \in DOMAIN list[i].properties |->
                                    PropertyOf(meta, list[i].properties[k]).fieldNames])
                    name == idxName(meta, list[i].name, properties,
                                    IF unique THEN "unique" ELSE "index")
                IN  IF ~Includes(existing, name)
                    THEN <<IndexDef(name, properties, unique)>> ELSE <<>>])
        willBeRemoved(name) ==
            \E c \in DOMAIN remove : \E e \in DOMAIN IndexEntries(table, name) :
                IndexEntries(table, name)[e].columnName = remove[c].name
        toDrop ==
            Flatten([i \in DOMAIN existing |->
                IF existing[i] \notin expectedIndexes(meta) /\ ~isImplicitIndex(existing[i])
                        /\ ~willBeRemoved(existing[i])
                THEN <<IndexDef(existing[i],
                                [e \in DOMAIN IndexEntries(table, existing[i]) |->
                                    IndexEntries(table, existing[i])[e].columnName],
                                IndexEntries(table, existing[i])[1].unique)>>
                ELSE <<>>])
    IN  [addIndex |-> toAdd(meta.indexes, FALSE) \o toAdd(meta.uniques, TRUE),
         dropIndex |-> toDrop]

\* the remove list computeTableDifference returns: none in safe mode
removeInIgnoringSafe(safe, remove) == remove

removeIn(safe, remove) == IF safe THEN <<>> ELSE remove

\* computeTableDifference(meta, table, safe)
computeTableDifference(meta, table, safe) ==
    LET props == SelectSeq(meta.props, LAMBDA p : shouldHaveColumn(meta, p, TRUE))
        remove0 == SelectSeq(table.columns, LAMBDA col :
                        ~\E i \in DOMAIN props :
                            Includes(props[i].fieldNames, col.name)
                            \/ Includes(props[i].joinColumns, col.name))
        perProp == [i \in DOMAIN props |-> computeColumnDifference(table, props[i])]
        renamed == findRenamedColumns(Flatten([i \in DOMAIN props |-> perProp[i].create]), remove0)
        ignore == renamed.remove
                  \o [i \in DOMAIN SelectSeq(renamed.rename, LAMBDA c :
                            c.to.reference \in {MANY_TO_ONE, ONE_TO_ONE}) |->
                        SelectSeq(renamed.rename, LAMBDA c :
                            c.to.reference \in {MANY_TO_ONE, ONE_TO_ONE})[i].from]
        idx == findIndexDifference(meta, table, ignore)
    IN  [create |-> renamed.create,
         update |-> Flatten([i \in DOMAIN props |-> perProp[i].update]),
         rename |-> renamed.rename,
         remove |-> removeIn(safe, renamed.remove),
         addIndex |-> idx.addIndex, dropIndex |-> idx.dropIndex]

----------------------------------------------------------------------------
(* SchemaGenerator: updating a live table *)

\* helper.getRenameColumnSQL(tableName, from, to): the live column takes the
\* property's field name
getRenameColumnSQL(pass, tableName, from, to) ==
    [Stmt(pass, "renameColumn", tableName, <<from.name>>) EXCEPT !.to = to.fieldNames[1]]

\* dropTableColumn(table, column)
dropTableColumn(pass, meta, column) ==
    (IF column.fk # NoFK
     THEN <<[Stmt(pass, "dropForeign", meta.collection, <<column.fk.columnName>>) EXCEPT
                !.name = column.fk.constraintName]>>
     ELSE <<>>)
    \o [i \in DOMAIN column.indexes |->
            [Stmt(pass, IF column.indexes[i].unique THEN "dropUnique" ELSE "dropIndex",
                  meta.collection, <<column.indexes[i].columnName>>) EXCEPT
                !.name = column.indexes[i].keyName]]
    \o <<Stmt(pass, "dropColumn", meta.collection, <<column.name>>)>>

\* updateTableColumn(table, meta, prop, column, diff)
updateTableColumn(pass, md, meta, prop, column, diff) ==
    LET equalDefinition == diff.sameTypes /\ diff.sameDefault /\ diff.sameNullable
        dropFk == IF column.fk # NoFK /\ ~diff.sameIndex
                  THEN <<[Stmt(pass, "dropForeign", meta.collection, <<column.fk.columnName>>)
                            EXCEPT !.name = column.fk.constraintName]>>
                  ELSE <<>>
        dropIdx == IF Len(column.indexes) > 0 /\ ~diff.sameIndex
                   THEN <<Stmt(pass, "dropIndex", meta.collection,
                               [i \in DOMAIN column.indexes |-> column.indexes[i].columnName])>>
                   ELSE <<>>
    IN  dropFk \o dropIdx \o
        (IF column.fk # NoFK /\ ~diff.sameIndex /\ equalDefinition
         THEN createForeignKey(pass, md, meta, prop, DiffAlter(diff))
         ELSE [i \in DOMAIN createTableColumn(pass, md, meta, prop, DiffAlter(diff)) |->
                [createTableColumn(pass, md, meta, prop, DiffAlter(diff))[i] EXCEPT
                    !.op = "alterColumn", !.alter = TRUE]])

\* updateTable(meta, table, safe): the renames, then one alterTable
updateTable(pass, md, meta, table, safe) ==
    LET d == computeTableDifference(meta, table, safe)
    IN  IF Len(d.create) + Len(d.update) + Len(d.remove) + Len(d.rename) = 0 THEN <<>>
        ELSE [i \in DOMAIN d.rename |->
                getRenameColumnSQL(pass, table.name, d.rename[i].from, d.rename[i].to)]
             \o Flatten([i \in DOMAIN d.create |->
                            createTableColumn(pass, md, meta, d.create[i], NoAlter)])
             \o Flatten([i \in DOMAIN d.update |->
                            updateTableColumn(pass, md, meta, d.update[i].prop,
                                              d.update[i].column, d.update[i].diff)])
             \o Flatten([i \in DOMAIN d.remove |-> dropTableColumn(pass, meta, d.remove[i])])

\* getUpdateTableSQL(meta, schema, safe)
getUpdateTableSQL(md, sch, meta, safe) ==
    IF ~HasTable(sch, meta.collection) THEN createTable("columns", md, meta)
    ELSE updateTable("columns", md, meta, getTable(sch, meta.collection), safe)

\* a getUpdateTableFKsSQL whose live table lost the columns an earlier
\* computeTableDifference took out of its remove list as renamed
getUpdateTableFKsSQLSpliced(md, sch, meta) ==
    IF ~HasTable(sch, meta.collection) THEN createForeignKeys("fks", md, meta, TRUE, <<>>)
    ELSE LET table == getTable(sch, meta.collection)
             first == computeTableDifference(meta, table, TRUE)
             spliced == [table EXCEPT !.columns = SelectSeq(@, LAMBDA column :
                            \A i \in DOMAIN first.rename : first.rename[i].from # column)]
             create == computeTableDifference(meta, spliced, TRUE).create
         IN  IF Len(create) = 0 THEN <<>>
             ELSE createForeignKeys("fks", md, meta, FALSE, create)

\* getUpdateTableFKsSQL(meta, schema)
getUpdateTableFKsSQL(md, sch, meta) ==
    IF ~HasTable(sch, meta.collection) THEN createForeignKeys("fks", md, meta, TRUE, <<>>)
    ELSE LET create == computeTableDifference(meta, getTable(sch, meta.collection), TRUE).create
         IN  IF Len(create) = 0 THEN <<>>
             ELSE createForeignKeys("fks", md, meta, FALSE, create)

\* getUpdateTableIndexesSQL(meta, schema): the drops, then the additions
getUpdateTableIndexesSQL(md, sch, meta) ==
    IF ~HasTable(sch, meta.collection) THEN createIndexes("indexes", meta)
    ELSE LET d == computeTableDifference(meta, getTable(sch, meta.collection), TRUE)
         IN  [i \in DOMAIN d.dropIndex |->
                [Stmt("indexes", IF d.dropIndex[i].unique THEN "dropUnique" ELSE "dropIndex",
                      meta.collection, d.dropIndex[i].columnNames) EXCEPT
                    !.name = d.dropIndex[i].keyName]]
             \o [i \in DOMAIN d.addIndex |->
                [Stmt("indexes", IF d.addIndex[i].unique THEN "unique" ELSE "index",
                      meta.collection, d.addIndex[i].columnNames) EXCEPT
                    !.name = d.addIndex[i].keyName]]

----------------------------------------------------------------------------
(* SchemaGenerator: the three generators, given the commit order *)

\* the name of the migrations table (config.get('migrations').tableName)
MigrationsTable == "mikro_orm_migrations"

\* getCreateSchemaSQL(): tables, then foreign keys, then indexes
createSchemaSQL(md, order) ==
    Flatten([i \in DOMAIN order |-> createTable("columns", md, md[order[i]])])
    \o Flatten([i \in DOMAIN order |-> createForeignKeys("fks", md, md[order[i]], TRUE, <<>>)])
    \o Flatten([i \in DOMAIN order |-> createIndexes("indexes", md[order[i]])])

\* the order getDropSchemaSQL walks
dropOrder(order) == Reverse(order)

\* getDropSchemaSQL(wrap, dropMigrationsTable)
dropSchemaSQL(md, order, dropMigrationsTable) ==
    [i \in DOMAIN dropOrder(order) |-> dropTable("tables", md[dropOrder(order)[i]].collection)]
    \o (IF dropMigrationsTable THEN <<dropTable("tables", MigrationsTable)>> ELSE <<>>)

\* the live tables getUpdateSchemaSQL drops
tablesToDropIgnoringSafe(sch, definedTables, safe, dropTables) ==
    IF ~dropTables THEN <<>>
    ELSE SelectSeq(sch, LAMBDA table : ~Includes(definedTables, table.name))

tablesToDrop(sch, definedTables, safe, dropTables) ==
    IF ~dropTables \/ safe THEN <<>>
    ELSE SelectSeq(sch, LAMBDA table : ~Includes(definedTables, table.name))

\* getUpdateSchemaSQL(wrap, safe, dropTables)
updateSchemaSQL(md, sch, order, safe, dropTables) ==
    LET definedTables == [i \in DOMAIN order |-> md[order[i]].collection]
        remove == tablesToDrop(sch, definedTables, safe, dropTables)
    IN  Flatten([i \in DOMAIN order |-> getUpdateTableSQL(md, sch, md[order[i]], safe)])
        \o Flatten([i \in DOMAIN order |-> getUpdateTableFKsSQL(md, sch, md[order[i]])])
        \o Flatten([i \in DOMAIN order |-> getUpdateTableIndexesSQL(md, sch, md[order[i]])])
        \o [i \in DOMAIN remove |-> dropTable("tables", remove[i].name)]

\* the differences updateTable computes, per entity that has a live table
tableDifferences(md, sch, order, safe) ==
    [e \in {n \in SeqToSet(order) : HasTable(sch, md[n].collection)} |->
        computeTableDifference(md[e], getTable(sch, md[e].collection), safe)]

----------------------------------------------------------------------------
(* The database that executes the statements (SchemaGenerator.execute) *)

\* the index name knex derives when a drop names none
DefaultIndexName(st) == st.table \o "_" \o Join(st.columns, "_") \o "_index"

\* the statement cannot be executed against the live schema
Fails(sch, st) ==
    LET t == getTable(sch, st.table)
    IN  CASE st.op = "createTable" -> HasTable(sch, st.table)
          [] st.op = "dropTable" -> FALSE
          [] st.op = "addColumn" -> ~HasTable(sch, st.table) \/ HasColumn(t, st.columns[1])
          [] st.op = "renameColumn" ->
                ~HasTable(sch, st.table) \/ ~HasColumn(t, st.columns[1]) \/ HasColumn(t, st.to)
          [] OTHER ->
                ~HasTable(sch, st.table)
                \/ \E i \in DOMAIN st.columns : ~HasColumn(t, st.columns[i])

\* the indexes a column statement asks for
StmtIndexes(st, column) ==
    (IF st.primary THEN <<ColumnIndex(column, "primary", TRUE)>> ELSE <<>>)
    \o (IF st.index # "" THEN <<ColumnIndex(column, st.index, FALSE)>> ELSE <<>>)
    \o (IF st.uniqueKey # "" THEN <<ColumnIndex(column, st.uniqueKey, TRUE)>> ELSE <<>>)

\* the live column after a column statement; `old` is the column before it
AlteredColumn(st, old) ==
    [old EXCEPT
        !.type = st.type,
        !.nullable = IF st.nullable = "keep" THEN @ ELSE st.nullable = "null",
        !.defaultValue = IF st.defaultTo = "keep" THEN @ ELSE st.defaultTo,
        !.indexes = @ \o SelectSeq(StmtIndexes(st, old.name),
                                   LAMBDA e : ~\E k \in DOMAIN old.indexes :
                                                old.indexes[k].keyName = e.keyName)]

\* the live table after one statement that does not fail
ApplyToTable(t, st) ==
    LET cols == t.columns
        touched(c) == Includes(st.columns, c.name)
        pos(c) == PosOf(st.columns, c.name)
    IN  CASE st.op = "addColumn" ->
                [t EXCEPT !.columns = Append(cols,
                    AlteredColumn(st, Column(st.columns[1], st.type, TRUE, NoDefault, NoFK, <<>>)))]
          [] st.op = "alterColumn" ->
                [t EXCEPT !.columns = [i \in DOMAIN cols |->
                    IF touched(cols[i]) THEN AlteredColumn(st, cols[i]) ELSE cols[i]]]
          [] st.op = "renameColumn" ->
                [t EXCEPT !.columns = [i \in DOMAIN cols |->
                    IF touched(cols[i])
                    THEN [cols[i] EXCEPT
                            !.name = st.to,
                            !.fk = IF @ = NoFK THEN @ ELSE [@ EXCEPT !.columnName = st.to],
                            !.indexes = [k \in DOMAIN @ |-> [@[k] EXCEPT !.columnName = st.to]]]
                    ELSE cols[i]]]
          [] st.op = "dropColumn" ->
                [t EXCEPT !.columns = SelectSeq(cols, LAMBDA c : ~touched(c))]
          [] st.op = "dropForeign" ->
                [t EXCEPT !.columns = [i \in DOMAIN cols |->
                    IF touched(cols[i]) THEN [cols[i] EXCEPT !.fk = NoFK] ELSE cols[i]]]
          [] st.op = "foreign" ->
                [t EXCEPT !.columns = [i \in DOMAIN cols |->
                    IF touched(cols[i])
                    THEN [cols[i] EXCEPT !.fk =
                            ForeignKey(cols[i].name, st.to,
                                       IF pos(cols[i]) \in DOMAIN st.refs
                                       THEN st.refs[pos(cols[i])] ELSE "")]
                    ELSE cols[i]]]
          [] st.op \in {"index", "unique", "primary"} ->
                [t EXCEPT !.columns = [i \in DOMAIN cols |->
                    IF touched(cols[i])
                    THEN [cols[i] EXCEPT !.indexes =
                            Append(@, ColumnIndex(cols[i].name,
                                                  IF st.op = "primary" THEN "primary" ELSE st.name,
                                                  st.op # "index"))]
                    ELSE cols[i]]]
          [] st.op \in {"dropIndex", "dropUnique"} ->
                [t EXCEPT !.columns = [i \in DOMAIN cols |->
                    [cols[i] EXCEPT !.indexes = SelectSeq(@, LAMBDA e :
                        e.keyName # (IF st.name = "" THEN DefaultIndexName(st) ELSE st.name))]]]
          [] OTHER -> t

\* the live schema after one statement that does not fail
Apply(sch, st) ==
    CASE st.op = "createTable" -> Append(sch, [name |-> st.table, columns |-> <<>>])
      [] st.op = "dropTable" -> SelectSeq(sch, LAMBDA t : t.name # st.table)
      [] OTHER -> [i \in DOMAIN sch |->
                    IF sch[i].name = st.table THEN ApplyToTable(sch[i], st) ELSE sch[i]]

RECURSIVE Run(_, _)
\* execute(sql): statement after statement; the first failure ends the run
Run(sch, stmts) ==
    IF stmts = <<>> THEN [schema |-> sch, err |-> "none"]
    ELSE IF Fails(sch, Head(stmts)) THEN [schema |-> sch, err |-> "DatabaseError"]
    ELSE Run(Apply(sch, Head(stmts)), Tail(stmts))

----------------------------------------------------------------------------
(* The operations *)

\* the arguments of the generator calls of a run: getUpdateSchemaSQL(wrap, safe,
\* dropTables) and getDropSchemaSQL(wrap, dropMigrationsTable)
DefaultArgs == [safe |-> FALSE, dropTables |-> TRUE, dropMigrationsTable |-> FALSE]

ArgSets == [safe : BOOLEAN, dropTables : BOOLEAN, dropMigrationsTable : BOOLEAN]

NoDiffs == [e \in {} |-> {}]

\* getCreateSchemaSQL()
GetCreateSchemaSQL ==
    /\ pc = "init"
    /\ \E r \in getOrderedMetadata(metadata, entities) :
        /\ pc' = "create"
        /\ err' = r.err
        /\ ddl' = IF r.err # "none" THEN <<>> ELSE createSchemaSQL(metadata, r.order)
        /\ diffs' = NoDiffs
        /\ UNCHANGED <<metadata, entities, schema, platform, args, queue, condition, queries, row, em>>

\* getDropSchemaSQL(wrap, dropMigrationsTable)
GetDropSchemaSQL ==
    /\ pc = "init"
    /\ \E r \in getOrderedMetadata(metadata, entities) :
        /\ pc' = "drop"
        /\ err' = r.err
        /\ ddl' = IF r.err # "none" THEN <<>>
                  ELSE dropSchemaSQL(metadata, r.order, args.dropMigrationsTable)
        /\ diffs' = NoDiffs
        /\ UNCHANGED <<metadata, entities, schema, platform, args, queue, condition, queries, row, em>>

\* getUpdateSchemaSQL(wrap, safe, dropTables)
GetUpdateSchemaSQL ==
    /\ pc = "init"
    /\ \E r \in getOrderedMetadata(metadata, entities) :
        /\ pc' = "update"
        /\ err' = r.err
        /\ ddl' = IF r.err # "none" THEN <<>>
                  ELSE updateSchemaSQL(metadata, schema, r.order, args.safe, args.dropTables)
        /\ diffs' = IF r.err # "none" THEN NoDiffs
                    ELSE tableDifferences(metadata, schema, r.order, args.safe)
        /\ UNCHANGED <<metadata, entities, schema, platform, args, queue, condition, queries, row, em>>

\* updateSchema(): execute(sql) runs the statements of the update on the database
Execute ==
    /\ pc = "update"
    /\ err = "none"
    /\ pc' = "executed"
    /\ schema' = Run(schema, ddl).schema
    /\ err' = Run(schema, ddl).err
    /\ UNCHANGED <<metadata, entities, platform, ddl, diffs, args, queue, condition, queries, row, em>>

Next == GetCreateSchemaSQL \/ GetDropSchemaSQL \/ GetUpdateSchemaSQL \/ Execute

----------------------------------------------------------------------------
(* Initial states: dependency graphs of three entities *)

RECURSIVE SubsetsUpTo(_, _)
\* the subsets of S with at most k elements
SubsetsUpTo(S, k) ==
    IF k = 0 THEN {{}}
    ELSE LET prev == SubsetsUpTo(S, k - 1)
         IN  prev \cup {s \cup {x} : s \in prev, x \in S}

RECURSIVE SetToSeq(_)
\* the elements of a finite set in some fixed order
SetToSeq(S) ==
    IF S = {} THEN <<>>
    ELSE LET x == CHOOSE y \in S : TRUE IN <<x>> \o SetToSeq(S \ {x})

OrderEntities == <<"A", "B", "C", "E">>

\* the entities a drawn relation joins; E is an embeddable
GraphNodes == {"A", "B", "C"}

\* the kinds of relation a drawn graph is made of
RelationKinds ==
    {[code |-> "m1req", reference |-> MANY_TO_ONE, owner |-> TRUE, nullable |-> FALSE],
     [code |-> "o1opt", reference |-> ONE_TO_ONE, owner |-> TRUE, nullable |-> TRUE],
     [code |-> "o1inv", reference |-> ONE_TO_ONE, owner |-> FALSE, nullable |-> FALSE]}

RelationMenu ==
    {[from |-> a, target |-> b, kind |-> k] :
        a \in GraphNodes, b \in GraphNodes, k \in RelationKinds}

\* the primary key every drawn entity has
IdProp == Prop("id", SCALAR, "number", FALSE, FALSE, TRUE, <<"id">>, <<"int">>)

\* the table of an entity: a single-table-inheritance child lives in its root's table
CollectionOf(e, cKind) ==
    IF e = "C" /\ cKind = "child" THEN "a"
    ELSE CASE e = "A" -> "a" [] e = "B" -> "b" [] e = "C" -> "c" [] OTHER -> "e"

\* the resolved property of a drawn relation
RelationProp(r, cKind) ==
    [Prop(r.kind.code \o "_" \o r.target, r.kind.reference, r.target, r.kind.owner,
          r.kind.nullable, FALSE,
          <<r.kind.code \o "_" \o r.target \o "_id">>, <<"int">>)
        EXCEPT !.referencedTableName = CollectionOf(r.target, cKind),
               !.referencedColumnNames = <<"id">>]

\* the metadata of a drawn graph; cKind makes C a root or a single-table-inheritance
\* child of A (A then holds C's properties, nullable)
GraphMetadata(rels, cKind) ==
    LET own(e) == SetToSeq({RelationProp(r, cKind) : r \in {q \in rels : q.from = e}})
        inherited == [i \in DOMAIN own("C") |->
                        [own("C")[i] EXCEPT !.nullable = TRUE, !.name = "c_" \o @,
                                            !.fieldNames = <<"c_" \o @[1]>>,
                                            !.joinColumns = <<"c_" \o @[1]>>]]
    IN  [e \in SeqToSet(OrderEntities) |->
            [Meta(e, CollectionOf(e, cKind),
                  IF e = "C" /\ cKind = "child" THEN "A" ELSE e,
                  <<IdProp>> \o own(e)
                  \o (IF e = "A" /\ cKind = "child" THEN inherited ELSE <<>>))
             EXCEPT !.embeddable = (e = "E")]]

\* a platform with foreign-key constraints and column alteration
FullPlatform ==
    [supportsSchemaConstraints |-> TRUE, supportsColumnAlter |-> TRUE,
     requiresNullableForAlteringColumn |-> FALSE, indexForeignKeys |-> TRUE]

InitOrder ==
    /\ entities = OrderEntities
    /\ \E rels \in SubsetsUpTo(RelationMenu, MaxRelations), cKind \in {"root", "child"} :
            metadata = GraphMetadata(rels, cKind)
    /\ platform = FullPlatform
    /\ schema = <<[name |-> "legacy", columns |-> <<>>]>>
    /\ ddl = <<>>
    /\ diffs = NoDiffs
    /\ err = "none"
    /\ pc = "init"
    /\ args = DefaultArgs
    /\ queue = <<>>
    /\ condition = NoCondition
    /\ queries = <<>>
    /\ row = NoRow
    /\ em = NoManagers

SpecOrder == InitOrder /\ [][Next]_vars

----------------------------------------------------------------------------
(* Initial states: one metadata graph and live schemas that drifted from it *)

\* at most this many changes between the created schema and the live schema
MaxChanges == 2

\* the capability flags of the platforms the generator is injected with
Platforms ==
    {FullPlatform,
     [supportsSchemaConstraints |-> TRUE, supportsColumnAlter |-> TRUE,
      requiresNullableForAlteringColumn |-> FALSE, indexForeignKeys |-> FALSE],
     [supportsSchemaConstraints |-> FALSE, supportsColumnAlter |-> FALSE,
      requiresNullableForAlteringColumn |-> TRUE, indexForeignKeys |-> TRUE]}

\* a persisted scalar property and its single column
ScalarProp(name, type, columnType) ==
    Prop(name, SCALAR, type, FALSE, FALSE, FALSE, <<name>>, <<columnType>>)

\* a ManyToOne property with its join columns and the columns they reference
ManyToOneProp(name, type, nullable, joinColumns, columnTypes, table, referenced) ==
    [Prop(name, MANY_TO_ONE, type, TRUE, nullable, FALSE, joinColumns, columnTypes)
        EXCEPT !.referencedTableName = table, !.referencedColumnNames = referenced]

\* an entry of meta.indexes / meta.uniques
MetaIndex(name, properties) == [name |-> name, properties |-> properties]

DiffEntities == <<"Author", "Book", "Pair">>

\* Author(id, name, email), Pair(a, b) with a composite key, Book(id, title,
\* author -> Author, key -> Pair)
DiffMetadata ==
    [e \in SeqToSet(DiffEntities) |->
        CASE e = "Author" ->
                [Meta("Author", "author", "Author",
                      <<IdProp, ScalarProp("name", "string", "varchar"),
                        [ScalarProp("email", "string", "varchar") EXCEPT !.unique = "true"]>>)
                 EXCEPT !.indexes = <<MetaIndex("unset", <<"name">>)>>]
          [] e = "Pair" ->
                Meta("Pair", "pair", "Pair",
                     <<[ScalarProp("a", "number", "int") EXCEPT !.primary = TRUE],
                       [ScalarProp("b", "number", "int") EXCEPT !.primary = TRUE]>>)
          [] OTHER ->
                [Meta("Book", "book", "Book",
                      <<IdProp, ScalarProp("title", "string", "varchar"),
                        ManyToOneProp("author", "Author", FALSE, <<"author_id">>, <<"int">>,
                                      "author", <<"id">>),
                        ManyToOneProp("key", "Pair", TRUE, <<"key_a", "key_b">>,
                                      <<"int", "int">>, "pair", <<"a", "b">>)>>)
                 EXCEPT !.uniques = <<MetaIndex("book_title_key", <<"title">>)>>]]

\* the live schema right after the create script of the metadata ran
CreatedSchema(md, ents) ==
    Run(<<>>, createSchemaSQL(md,
                (CHOOSE r \in getOrderedMetadata(md, ents) : r.err = "none").order)).schema

\* the live schema with one column replaced
ChangeColumn(sch, tableName, columnName, column) ==
    [i \in DOMAIN sch |->
        IF sch[i].name # tableName THEN sch[i]
        ELSE [sch[i] EXCEPT !.columns = [k \in DOMAIN @ |->
                IF @[k].name = columnName THEN column ELSE @[k]]]]

\* the column of the live schema a change is about
LiveColumn(sch, ch) == getColumn(getTable(sch, ch.table), ch.column)

\* one change somebody made to the live schema behind the generator's back
Drift(sch, ch) ==
    CASE ch.kind = "dropColumn" ->
            Apply(sch, Stmt("", "dropColumn", ch.table, <<ch.column>>))
      [] ch.kind = "renameColumn" ->
            Apply(sch, [Stmt("", "renameColumn", ch.table, <<ch.column>>)
                            EXCEPT !.to = "old_" \o ch.column])
      [] ch.kind = "type" ->
            ChangeColumn(sch, ch.table, ch.column, [LiveColumn(sch, ch) EXCEPT !.type = "text"])
      [] ch.kind = "nullable" ->
            ChangeColumn(sch, ch.table, ch.column, [LiveColumn(sch, ch) EXCEPT !.nullable = ~@])
      [] ch.kind = "default" ->
            ChangeColumn(sch, ch.table, ch.column, [LiveColumn(sch, ch) EXCEPT !.defaultValue = "0"])
      [] ch.kind = "index" ->
            ChangeColumn(sch, ch.table, ch.column, [LiveColumn(sch, ch) EXCEPT !.indexes =
                Append(@, ColumnIndex(ch.column, "stale_" \o ch.column, FALSE))])
      [] ch.kind = "dropForeign" ->
            ChangeColumn(sch, ch.table, ch.column, [LiveColumn(sch, ch) EXCEPT !.fk = NoFK])
      [] ch.kind = "foreign" ->
            ChangeColumn(sch, ch.table, ch.column, [LiveColumn(sch, ch) EXCEPT !.fk =
                ForeignKey(ch.column, "legacy", "id")])
      [] ch.kind = "addColumn" ->
            IF ~HasTable(sch, ch.table) THEN sch
            ELSE Apply(sch, [Stmt("", "addColumn", ch.table, <<ch.column>>)
                                EXCEPT !.type = "varchar", !.nullable = "notnull"])
      [] ch.kind = "dropTable" -> Apply(sch, dropTable("", ch.table))
      [] OTHER ->
            Apply(Apply(sch, Stmt("", "createTable", ch.table, <<>>)),
                  [Stmt("", "addColumn", ch.table, <<"id">>)
                        EXCEPT !.type = "int", !.nullable = "notnull", !.primary = TRUE])

Change(kind, table, column) == [kind |-> kind, table |-> table, column |-> column]

\* the changes a live schema may have gone through
DriftMenu ==
    LET of(table, column, kinds) == [k \in DOMAIN kinds |-> Change(kinds[k], table, column)]
    IN  of("author", "name",
           <<"dropColumn", "renameColumn", "type", "nullable", "default", "index">>)
        \o of("author", "email", <<"dropColumn", "renameColumn">>)
        \o of("book", "title", <<"type", "index">>)
        \o of("book", "author_id",
              <<"dropColumn", "renameColumn", "type", "nullable", "index",
                "dropForeign", "foreign">>)
        \o of("book", "key_a", <<"dropColumn", "renameColumn", "type", "dropForeign">>)
        \o of("book", "key_b", <<"dropColumn", "renameColumn">>)
        \o <<Change("addColumn", "author", "legacy"), Change("dropTable", "book", ""),
             Change("dropTable", "pair", ""), Change("createTable", "legacy", ""),
             Change("index", "book", "old_author_id")>>

RECURSIVE Drifted(_, _, _, _)
\* the live schema after the chosen changes of the menu, made in the menu's order
Drifted(sch, menu, chosen, i) ==
    IF i > Len(menu) THEN sch
    ELSE Drifted(IF i \in chosen THEN Drift(sch, menu[i]) ELSE sch, menu, chosen, i + 1)

\* the argument sets of a run; the migrations table is dropped when nothing else is
DiffArgs == {a \in ArgSets : a.dropMigrationsTable = (~a.safe /\ ~a.dropTables)}

InitDiff ==
    /\ entities = DiffEntities
    /\ metadata = DiffMetadata
    /\ platform \in Platforms
    /\ \E menu \in {DriftMenu}, created \in {CreatedSchema(metadata, entities)} :
            \E chosen \in SubsetsUpTo(DOMAIN menu, MaxChanges) :
                schema = Drifted(created, menu, chosen, 1)
    /\ ddl = <<>>
    /\ diffs = NoDiffs
    /\ err = "none"
    /\ pc = "init"
    /\ args \in DiffArgs
    /\ queue = <<>>
    /\ condition = NoCondition
    /\ queries = <<>>
    /\ row = NoRow
    /\ em = NoManagers

SpecDiff == InitDiff /\ [][Next]_vars

----------------------------------------------------------------------------
(* Properties: the commit order *)

\* the root entities of the metadata
Roots == SeqToSet(RootEntities(metadata, entities))

\* entity a holds a foreign key to entity b that is required / nullable
RequiredFK(a, b) ==
    \E p \in SeqToSet(metadata[a].props) :
        /\ p.type = b /\ ~p.nullable
        /\ p.reference = MANY_TO_ONE \/ (p.reference = ONE_TO_ONE /\ p.owner)

NullableFK(a, b) ==
    \E p \in SeqToSet(metadata[a].props) :
        /\ p.type = b /\ p.nullable
        /\ p.reference = MANY_TO_ONE \/ (p.reference = ONE_TO_ONE /\ p.owner)

\* no cycle of required foreign keys among the root entities
RequiredAcyclic ==
    \A x \in Roots :
        <<x, x>> \notin Closure({<<a, b>> \in Roots \X Roots : RequiredFK(a, b)},
                                Cardinality(Roots))

\* position in ddl of the first statement `op` on `table` (0 when there is none)
StmtPos(op, table) ==
    IF \E i \in DOMAIN ddl : ddl[i].op = op /\ ddl[i].table = table
    THEN CHOOSE i \in DOMAIN ddl :
            /\ ddl[i].op = op /\ ddl[i].table = table
            /\ \A j \in 1..(i - 1) : ~(ddl[j].op = op /\ ddl[j].table = table)
    ELSE 0

\* C1: when root entity A holds a required foreign key to root entity B and the
\* required foreign keys form no cycle, the create script creates B's table
\* before A's and the drop script drops A's table before B's.
C1_RequiredTargetFirst ==
    \A a \in Roots, b \in Roots :
        (RequiredFK(a, b) /\ RequiredAcyclic) =>
            /\ pc = "create" =>
                /\ StmtPos("createTable", metadata[b].collection) > 0
                /\ StmtPos("createTable", metadata[b].collection)
                        < StmtPos("createTable", metadata[a].collection)
            /\ pc = "drop" =>
                /\ StmtPos("dropTable", metadata[a].collection) > 0
                /\ StmtPos("dropTable", metadata[a].collection)
                        < StmtPos("dropTable", metadata[b].collection)

\* a drop script for a chain of two required foreign keys
C1_Witness ==
    /\ pc = "drop" /\ err = "none" /\ RequiredAcyclic
    /\ \E a \in Roots, b \in Roots, c \in Roots :
        /\ RequiredFK(a, b) /\ RequiredFK(b, c)
        /\ StmtPos("dropTable", metadata[a].collection)
                < StmtPos("dropTable", metadata[c].collection)

\* C2: when the required foreign keys of the root entities form a cycle (a
\* required self-reference included), each generator fails with
\* SchemaDependencyError and has produced no statement.
C2_RequiredCycleFails ==
    (pc \in {"create", "drop", "update"} /\ ~RequiredAcyclic) =>
        (err = "SchemaDependencyError" /\ ddl = <<>>)

\* an update that failed on a required self-reference
C2_Witness ==
    /\ pc = "update" /\ err = "SchemaDependencyError" /\ ddl = <<>>
    /\ \E a \in Roots : RequiredFK(a, a)

\* the tables of the createTable statements, in statement order
CreatedTables ==
    [i \in DOMAIN SelectSeq(ddl, LAMBDA st : st.op = "createTable") |->
        SelectSeq(ddl, LAMBDA st : st.op = "createTable")[i].table]

----------------------------------------------------------------------------
(* Properties: safe mode *)

\* the statement drops something
IsDrop(st) == st.op \in {"dropColumn", "dropTable", "dropIndex", "dropUnique", "dropForeign"}

\* a live column of the table that no property of the entity maps to
StaleColumns(meta, table) ==
    {c \in SeqToSet(table.columns) :
        \A p \in SeqToSet(meta.props) :
            ~Includes(p.fieldNames, c.name) /\ ~Includes(p.joinColumns, c.name)}

\* C4: an update in safe mode holds no statement that drops a column or a table,
\* and every table difference it computed has an empty remove list, whatever
\* dropTables is.
C4_SafeKeepsColumnsAndTables ==
    (pc = "update" /\ args.safe) =>
        /\ \A i \in DOMAIN ddl : ddl[i].op \notin {"dropColumn", "dropTable"}
        /\ \A e \in DOMAIN diffs : diffs[e].remove = <<>>

\* a safe update with dropTables set, over a live schema that holds a table of no
\* entity and a column of no property
C4_Witness ==
    /\ pc = "update" /\ err = "none" /\ args.safe /\ args.dropTables
    /\ HasTable(schema, "legacy")
    /\ \E e \in DOMAIN diffs :
        StaleColumns(metadata[e], getTable(schema, metadata[e].collection)) # {}

\* C5 as stated: an update in safe mode holds no drop of any kind, be it of a
\* column, a table, an index, a unique constraint or a foreign key.
C5_SafeNeverDrops ==
    (pc = "update" /\ args.safe) => \A i \in DOMAIN ddl : ~IsDrop(ddl[i])

\* C5 amended: in safe mode every drop of the update is a drop of an index or a
\* unique constraint the index pass found unexpected, or the drop of the foreign
\* key or of the indexes of a live column whose foreign key differs from the
\* property's; no column and no table is dropped.
C5_SafeDropsOnlyKeys ==
    (pc = "update" /\ args.safe) =>
        \A i \in DOMAIN ddl :
            IsDrop(ddl[i]) =>
                \E e \in DOMAIN diffs :
                    /\ metadata[e].collection = ddl[i].table
                    /\ \/ /\ ddl[i].pass = "indexes"
                          /\ ddl[i].op \in {"dropIndex", "dropUnique"}
                          /\ \E k \in DOMAIN diffs[e].dropIndex :
                                diffs[e].dropIndex[k].keyName = ddl[i].name
                       \/ /\ ddl[i].pass = "columns"
                          /\ ddl[i].op \in {"dropForeign", "dropIndex"}
                          /\ \E k \in DOMAIN diffs[e].update :
                                /\ ~diffs[e].update[k].diff.sameIndex
                                /\ Includes(ddl[i].columns, diffs[e].update[k].column.name)

\* a safe update that drops an index and a safe update that drops a foreign key
C5_Witness ==
    /\ pc = "update" /\ err = "none" /\ args.safe
    /\ \E i \in DOMAIN ddl : ddl[i].op = "dropForeign"
    /\ \E i \in DOMAIN ddl : ddl[i].op = "dropIndex" /\ ddl[i].pass = "indexes"

----------------------------------------------------------------------------
(* Properties: the table difference *)

\* the table of entity e as the create script of the metadata makes it
CreatedTable(e) == getTable(CreatedSchema(metadata, entities), metadata[e].collection)

\* the live table of entity e differs from the created one only in that its
\* column c bears another name than the field name f of property p
OnlyRenamed(e, c, p, f) ==
    LET live == getTable(schema, metadata[e].collection)
    IN  /\ HasTable(schema, metadata[e].collection)
        /\ HasColumn(live, c) /\ ~HasColumn(live, f)
        /\ Includes(p.fieldNames, f)
        /\ ApplyToTable(live, [Stmt("", "renameColumn", live.name, <<c>>) EXCEPT !.to = f])
                = CreatedTable(e)

\* the difference holds one rename, of column c to property p, and neither
\* creates p nor removes c
RenamedOnce(d, c, p) ==
    /\ Len(d.rename) = 1
    /\ d.rename[1].from.name = c /\ d.rename[1].to = p
    /\ ~Includes(d.create, p)
    /\ \A k \in DOMAIN d.remove : d.remove[k].name # c

\* C6: when a live table differs from the metadata only in the name of one
\* column, computeTableDifference returns exactly one rename, from that column to
\* its property; the property is not in create and the column is not in remove.
C6_SingleRename ==
    (pc = "update" /\ err = "none") =>
        \A e \in DOMAIN diffs :
            \A p \in SeqToSet(metadata[e].props) :
                \A f \in SeqToSet(p.fieldNames) :
                    \A c \in {col.name : col \in SeqToSet(getTable(schema,
                                                    metadata[e].collection).columns)} :
                        OnlyRenamed(e, c, p, f) => RenamedOnce(diffs[e], c, p)

\* a renamed column of a single-column property was found to be one rename
C6_Witness ==
    /\ pc = "update" /\ err = "none"
    /\ \E e \in DOMAIN diffs :
        \E p \in SeqToSet(metadata[e].props) :
            /\ Len(p.fieldNames) = 1
            /\ \E c \in {col.name : col \in SeqToSet(getTable(schema,
                                                metadata[e].collection).columns)} :
                    OnlyRenamed(e, c, p, p.fieldNames[1]) /\ RenamedOnce(diffs[e], c, p)

\* every list of the difference is empty
EmptyDifference(d) ==
    /\ d.create = <<>> /\ d.update = <<>> /\ d.remove = <<>> /\ d.rename = <<>>
    /\ d.addIndex = <<>> /\ d.dropIndex = <<>>

\* C7: once the statements of an update computed in non-safe mode ran on the
\* live schema, the difference of every entity to its live table is empty in
\* every list.
C7_RediffEmpty ==
    (pc = "executed" /\ err = "none" /\ ~args.safe) =>
        \A e \in Roots :
            HasTable(schema, metadata[e].collection) =>
                EmptyDifference(computeTableDifference(metadata[e],
                                    getTable(schema, metadata[e].collection), FALSE))

\* an update that changed live columns ran and left no difference behind
C7_Witness ==
    /\ pc = "executed" /\ err = "none" /\ ~args.safe
    /\ \E i \in DOMAIN ddl : ddl[i].op = "renameColumn"
    /\ \E i \in DOMAIN ddl : ddl[i].op = "alterColumn"
    /\ \A e \in Roots :
        /\ HasTable(schema, metadata[e].collection)
        /\ EmptyDifference(computeTableDifference(metadata[e],
                                getTable(schema, metadata[e].collection), FALSE))

----------------------------------------------------------------------------
(* Properties: the passes of the create and update scripts *)

\* the statement creates a table or adds, alters, renames or removes a column
IsColumnStmt(st) ==
    st.op \in {"createTable", "addColumn", "alterColumn", "renameColumn", "dropColumn"}

\* C8 as stated: in the create and the update script every statement that
\* creates a table or adds, alters, renames or removes a column precedes every
\* statement that adds a foreign key, and the foreign-key pass creates no column.
C8_ColumnsBeforeForeignKeys ==
    (pc \in {"create", "update"}) =>
        /\ \A i \in DOMAIN ddl, j \in DOMAIN ddl :
            (IsColumnStmt(ddl[i]) /\ ddl[j].op = "foreign") => i < j
        /\ \A i \in DOMAIN ddl : ddl[i].pass = "fks" => ddl[i].op # "addColumn"

\* C8 amended: the statements of the foreign-key pass follow every statement
\* of the table and column pass. With foreign-key constraints supported the pass
\* holds foreign keys only, and a foreign key outside of it belongs to an updated
\* live column whose foreign key differed. Without them no foreign key is added
\* at all and the pass holds the join columns of the relations.
C8_ForeignKeyPass ==
    (pc \in {"create", "update"}) =>
        /\ \A i \in DOMAIN ddl, j \in DOMAIN ddl :
            (ddl[i].pass = "columns" /\ ddl[j].pass = "fks") => i < j
        /\ \A i \in DOMAIN ddl :
            ddl[i].pass = "fks" =>
                ddl[i].op = (IF platform.supportsSchemaConstraints
                             THEN "foreign" ELSE "addColumn")
        /\ \A i \in DOMAIN ddl :
            ddl[i].op = "foreign" =>
                /\ platform.supportsSchemaConstraints
                /\ \/ ddl[i].pass = "fks"
                   \/ /\ ddl[i].pass = "columns" /\ pc = "update"
                      /\ \E e \in DOMAIN diffs : \E k \in DOMAIN diffs[e].update :
                            /\ metadata[e].collection = ddl[i].table
                            /\ diffs[e].update[k].column.fk # NoFK
                            /\ ~diffs[e].update[k].diff.sameIndex
                            /\ Includes(ddl[i].columns, diffs[e].update[k].column.name)

\* a create script whose foreign-key pass creates columns, for want of constraints
C8_Witness ==
    /\ pc = "create" /\ err = "none" /\ ~platform.supportsSchemaConstraints
    /\ \E i \in DOMAIN ddl : ddl[i].pass = "fks" /\ ddl[i].op = "addColumn"
    /\ \E i \in DOMAIN ddl : ddl[i].pass = "columns" /\ ddl[i].op = "createTable"

----------------------------------------------------------------------------
(* The naming strategy and the type definitions of the schema helper *)

\* underscore(name): camel case to snake case, for the names the model declares
underscore(name) ==
    CASE name = "Person" -> "person"
      [] name = "Tag" -> "tag"
      [] name = "friendOf" -> "friend_of"
      [] name = "Base" -> "base"
      [] name = "Employee" -> "employee"
      [] name = "Manager" -> "manager"
      [] name = "Intern" -> "intern"
      [] OTHER -> name

\* namingStrategy.propertyToColumnName(propertyName)
propertyToColumnName(propertyName) == underscore(propertyName)

\* namingStrategy.referenceColumnName()
referenceColumnName == "id"

\* namingStrategy.joinColumnName(propertyName)
joinColumnName(propertyName) == underscore(propertyName) \o "_" \o referenceColumnName

\* namingStrategy.joinKeyColumnName(entityName, referencedColumnName, composite)
joinKeyColumnName(entityName, referencedColumnName, composite) ==
    underscore(entityName) \o "_" \o referencedColumnName

\* namingStrategy.joinTableName(sourceEntity, targetEntity, propertyName)
joinTableName(sourceEntity, targetEntity, propertyName) ==
    underscore(sourceEntity) \o "_to_" \o underscore(targetEntity)

\* schemaHelper.getTypeDefinition(prop)
getTypeDefinition(prop) == IF prop.type = "number" THEN "int" ELSE "varchar"

----------------------------------------------------------------------------
(* MetadataDiscovery: field names, join columns and column types *)

\* a property as declared, before discovery; a list that is not given is empty,
\* a name that is not given is ""; `options` keeps which options were given
Declared(name, reference, type, owner) ==
    [name |-> name, reference |-> reference, type |-> type, owner |-> owner,
     nullable |-> FALSE, primary |-> FALSE, persist |-> TRUE, object |-> FALSE,
     fieldNames |-> <<>>, joinColumns |-> <<>>, inverseJoinColumns |-> <<>>,
     referencedColumnNames |-> <<>>, referencedTableName |-> "",
     mappedBy |-> "", inversedBy |-> "", pivotTable |-> "",
     fixedOrder |-> "unset", fixedOrderColumn |-> "",
     columnTypes |-> <<>>, defaultRaw |-> NoDefault, index |-> "unset", unique |-> "unset",
     inherited |-> FALSE, enum |-> FALSE, items |-> <<>>,
     options |-> {}]

\* meta.properties[prop.name] = prop
SetProp(md, e, prop) ==
    [md EXCEPT ![e].props = [i \in DOMAIN @ |-> IF @[i].name = prop.name THEN prop ELSE @[i]]]

\* meta.properties[name] exists
HasProperty(meta, name) == \E i \in DOMAIN meta.props : meta.props[i].name = name

\* Object.values(meta.properties).map(prop => prop.name)
PropNames(meta) == [i \in DOMAIN meta.props |-> meta.props[i].name]

RECURSIVE initFieldName(_, _)
RECURSIVE initManyToOneFieldName(_, _, _)
\* an initFieldName that derives the field names of a property that gives them
initFieldNameDerived(md, prop) ==
    IF prop.reference = SCALAR THEN <<propertyToColumnName(prop.name)>>
    ELSE IF prop.reference \in {MANY_TO_ONE, ONE_TO_ONE}
    THEN initManyToOneFieldName(md, prop, prop.name)
    ELSE IF prop.reference = MANY_TO_MANY /\ prop.owner
    THEN [i \in DOMAIN md[prop.type].primaryKeys |-> propertyToColumnName(prop.name)]
    ELSE <<>>

\* initFieldName(prop): the field names the property has after the call
initFieldName(md, prop) ==
    IF Len(prop.fieldNames) > 0 THEN prop.fieldNames
    ELSE IF prop.reference = SCALAR THEN <<propertyToColumnName(prop.name)>>
    ELSE IF prop.reference \in {MANY_TO_ONE, ONE_TO_ONE}
    THEN initManyToOneFieldName(md, prop, prop.name)
    ELSE IF prop.reference = MANY_TO_MANY /\ prop.owner
    THEN [i \in DOMAIN md[prop.type].primaryKeys |-> propertyToColumnName(prop.name)]
    ELSE <<>>

\* initManyToOneFieldName(prop, name): one name per field of every primary key
initManyToOneFieldName(md, prop, name) ==
    LET meta2 == md[prop.type]
    IN  Flatten([k \in DOMAIN meta2.primaryKeys |->
            LET fieldNames == initFieldName(md, PropertyOf(meta2, meta2.primaryKeys[k]))
            IN  [j \in DOMAIN fieldNames |->
                    joinKeyColumnName(name, fieldNames[j], meta2.compositePK)]])

RECURSIVE initColumnType(_, _)
\* initColumnType(prop): the column types the property has after the call
initColumnType(md, prop) ==
    IF prop.columnTypes # <<>> THEN prop.columnTypes
    ELSE IF prop.reference = SCALAR THEN <<getTypeDefinition(prop)>>
    ELSE LET meta == md[prop.type]
         IN  Flatten([k \in DOMAIN meta.primaryKeys |->
                        initColumnType(md, PropertyOf(meta, meta.primaryKeys[k]))])

\* the field names of the primary keys of an entity, flattened
primaryKeyFieldNamesReversed(meta) ==
    Reverse(Flatten([k \in DOMAIN meta.primaryKeys |->
                        PropertyOf(meta, meta.primaryKeys[k]).fieldNames]))

\* Utils.flatten(meta.primaryKeys.map(primaryKey => meta.properties[primaryKey].fieldNames))
primaryKeyFieldNames(meta) ==
    Flatten([k \in DOMAIN meta.primaryKeys |->
                PropertyOf(meta, meta.primaryKeys[k]).fieldNames])

\* initManyToOneFields(prop)
initManyToOneFields(md, prop) ==
    LET meta2 == md[prop.type]
        fieldNames == primaryKeyFieldNames(meta2)
    IN  [prop EXCEPT
            !.referencedTableName = IF @ = "" THEN meta2.collection ELSE @,
            !.joinColumns = IF @ = <<>>
                            THEN [i \in DOMAIN fieldNames |->
                                    joinKeyColumnName(prop.name, fieldNames[i],
                                                      Len(fieldNames) > 1)]
                            ELSE @,
            !.referencedColumnNames = IF @ = <<>> THEN fieldNames ELSE @]

\* initOneToManyFields(prop)
initOneToManyFields(md, prop) ==
    [prop EXCEPT
        !.joinColumns = IF @ = <<>> THEN <<joinColumnName(prop.name)>> ELSE @,
        !.referencedColumnNames = IF @ = <<>> THEN primaryKeyFieldNames(md[prop.type]) ELSE @]

RECURSIVE initManyToManyFields(_, _, _)
\* initManyToManyFields(meta, prop): a mapped side first initialises its owner
\* and copies the pivot table and the fixed order from it
initManyToManyFields(md, e, name) ==
    LET prop == PropertyOf(md[e], name)
        named == [prop EXCEPT
                    !.fixedOrder = IF @ # "unset" THEN @
                                   ELSE IF prop.fixedOrderColumn # "" THEN "true" ELSE "false",
                    !.pivotTable = IF @ = "" /\ prop.owner
                                   THEN joinTableName(md[e].collection,
                                                      md[prop.type].collection, prop.name)
                                   ELSE @]
        md1 == IF prop.mappedBy # ""
               THEN initManyToManyFields(SetProp(md, e, named), prop.type, prop.mappedBy)
               ELSE SetProp(md, e, named)
        prop2 == PropertyOf(md1[prop.type], prop.mappedBy)
        copied == IF prop.mappedBy # ""
                  THEN [named EXCEPT !.pivotTable = prop2.pivotTable,
                                     !.fixedOrder = prop2.fixedOrder,
                                     !.fixedOrderColumn = prop2.fixedOrderColumn]
                  ELSE named
        meta == md1[e]
        referenced == IF copied.referencedColumnNames = <<>> THEN primaryKeyFieldNames(meta)
                      ELSE copied.referencedColumnNames
    IN  SetProp(md1, e,
            [copied EXCEPT
                !.referencedColumnNames = referenced,
                !.joinColumns = IF @ = <<>>
                                THEN [i \in DOMAIN referenced |->
                                        joinKeyColumnName(meta.collection, referenced[i],
                                                          meta.compositePK)]
                                ELSE @,
                !.inverseJoinColumns = IF @ = <<>>
                                       THEN initManyToOneFieldName(md1, copied,
                                                md1[prop.type].collection)
                                       ELSE @])

\* applyNamingStrategy(meta, prop)
applyNamingStrategy(md, e, name) ==
    LET prop0 == PropertyOf(md[e], name)
        prop == [prop0 EXCEPT !.fieldNames = initFieldName(md, prop0)]
        md0 == SetProp(md, e, prop)
    IN  IF prop.reference = MANY_TO_MANY THEN initManyToManyFields(md0, e, name)
        ELSE IF prop.reference \in {MANY_TO_ONE, ONE_TO_ONE}
        THEN SetProp(md0, e, initManyToOneFields(md0, prop))
        ELSE IF prop.reference = ONE_TO_MANY
        THEN SetProp(md0, e, initOneToManyFields(md0, prop))
        ELSE md0

----------------------------------------------------------------------------
(* MetadataDiscovery: the pivot entity of a ManyToMany owner *)

\* defineFixedOrderProperty(prop): the primary key of a pivot table with a fixed order
defineFixedOrderProperty(prop) ==
    LET pk == IF prop.fixedOrderColumn # "" THEN prop.fixedOrderColumn ELSE referenceColumnName
    IN  [Declared(pk, SCALAR, "number", FALSE) EXCEPT
            !.primary = TRUE, !.fieldNames = <<propertyToColumnName(pk)>>,
            !.columnTypes = <<"int">>]

\* a definePivotProperty that builds both properties as the owner's
definePivotPropertyAsOwner(md, prop, name, type, inverse, owner) ==
    LET ret == [Declared(name, MANY_TO_ONE, type, TRUE) EXCEPT
                    !.fixedOrder = prop.fixedOrder,
                    !.fixedOrderColumn = prop.fixedOrderColumn,
                    !.referencedTableName = md[type].collection,
                    !.inversedBy = inverse,
                    !.referencedColumnNames = prop.referencedColumnNames,
                    !.fieldNames = prop.joinColumns,
                    !.joinColumns = prop.joinColumns,
                    !.inverseJoinColumns = prop.referencedColumnNames]
    IN  [ret EXCEPT !.columnTypes = initColumnType(md, ret)]

\* definePivotProperty(prop, name, type, inverse, owner)
definePivotProperty(md, prop, name, type, inverse, owner) ==
    LET meta == md[type]
        base == [Declared(name, MANY_TO_ONE, type, owner) EXCEPT
                    !.fixedOrder = prop.fixedOrder,
                    !.fixedOrderColumn = prop.fixedOrderColumn,
                    !.referencedTableName = meta.collection]
        ret == IF owner
               THEN [base EXCEPT !.inversedBy = inverse,
                                 !.referencedColumnNames = prop.referencedColumnNames,
                                 !.fieldNames = prop.joinColumns,
                                 !.joinColumns = prop.joinColumns,
                                 !.inverseJoinColumns = prop.referencedColumnNames]
               ELSE [base EXCEPT !.mappedBy = inverse,
                                 !.fieldNames = prop.inverseJoinColumns,
                                 !.joinColumns = prop.inverseJoinColumns,
                                 !.referencedColumnNames = primaryKeyFieldNames(meta),
                                 !.inverseJoinColumns = primaryKeyFieldNames(meta)]
    IN  [ret EXCEPT !.columnTypes = initColumnType(md, ret)]

\* the test of definePivotTableEntity for a self-reference with the same names
sameDefaultFieldNames(meta, prop) ==
    /\ meta.name = prop.type
    /\ \A idx \in DOMAIN prop.joinColumns :
        idx \in DOMAIN prop.inverseJoinColumns
        /\ prop.joinColumns[idx] = prop.inverseJoinColumns[idx]

\* definePivotTableEntity(meta, prop): the metadata with the pivot entity set,
\* the owner's columns told apart and mirrored onto the inverse side
definePivotTableEntity(md, e, name) ==
    LET meta == md[e]
        prop0 == PropertyOf(meta, name)
        fixed == prop0.fixedOrder = "true"
        primaryProp == defineFixedOrderProperty(prop0)
        prop1 == IF fixed THEN [prop0 EXCEPT !.fixedOrderColumn = primaryProp.name] ELSE prop0
        md1 == IF fixed /\ prop0.inversedBy # ""
               THEN SetProp(SetProp(md, e, prop1), prop0.type,
                        [PropertyOf(SetProp(md, e, prop1)[prop0.type], prop0.inversedBy) EXCEPT
                            !.fixedOrder = "true", !.fixedOrderColumn = primaryProp.name])
               ELSE SetProp(md, e, prop1)
        same == sameDefaultFieldNames(meta, prop1)
        prop == IF same
                THEN [prop1 EXCEPT
                        !.joinColumns = [i \in DOMAIN prop1.referencedColumnNames |->
                            joinKeyColumnName(meta.collection \o "_1",
                                prop1.referencedColumnNames[i], meta.compositePK)],
                        !.inverseJoinColumns = [i \in DOMAIN prop1.referencedColumnNames |->
                            joinKeyColumnName(meta.collection \o "_2",
                                prop1.referencedColumnNames[i], meta.compositePK)]]
                ELSE prop1
        md2 == IF same /\ prop.inversedBy # ""
               THEN SetProp(SetProp(md1, e, prop), prop.type,
                        [PropertyOf(SetProp(md1, e, prop)[prop.type], prop.inversedBy) EXCEPT
                            !.inverseJoinColumns = prop.joinColumns,
                            !.joinColumns = prop.inverseJoinColumns])
               ELSE SetProp(md1, e, prop)
        ownerName == meta.name \o "_owner"
        inverseName == prop.type \o "_inverse"
        data == [name |-> prop.pivotTable, collection |-> prop.pivotTable, root |-> "",
                 embeddable |-> FALSE, pivotTable |-> TRUE,
                 props |-> (IF fixed THEN <<primaryProp>> ELSE <<>>)
                    \o <<definePivotProperty(md2, prop, ownerName, meta.name, inverseName, TRUE),
                         definePivotProperty(md2, prop, inverseName, prop.type, ownerName, FALSE)>>,
                 primaryKeys |-> IF fixed THEN <<primaryProp.name>>
                                 ELSE <<ownerName, inverseName>>,
                 compositePK |-> ~fixed, indexes |-> <<>>, uniques |-> <<>>]
    IN  [x \in DOMAIN md2 \cup {prop.pivotTable} |->
            IF x = prop.pivotTable THEN data ELSE md2[x]]

\* the ManyToMany owners of the entity that get a pivot entity
pivotOwners(meta) ==
    PropNames([props |-> SelectSeq(meta.props, LAMBDA prop :
                    prop.reference = MANY_TO_MANY /\ prop.owner /\ prop.pivotTable # "")])

\* the body of the loop of processEntity over the properties
processProperty(md, e, name) ==
    LET named == applyNamingStrategy(md, e, name)
        prop == PropertyOf(named[e], name)
    IN  SetProp(named, e, [prop EXCEPT !.columnTypes = initColumnType(named, prop)])

RECURSIVE processPropertyList(_, _, _)
\* Object.values(meta.properties).forEach(prop => ...), each call on the
\* metadata the calls before it left
processPropertyList(md, e, names) ==
    IF names = <<>> THEN md
    ELSE CHOOSE result \in {processPropertyList(next, e, Tail(names)) :
                                next \in {processProperty(md, e, Head(names))}} : TRUE

\* processEntity(meta) up to the pivot entities: primary keys, then every property
processProperties(md, e) ==
    LET pks == SelectSeq(md[e].props, LAMBDA prop : prop.primary)
        md0 == [md EXCEPT ![e].primaryKeys = PropNames([props |-> pks]),
                          ![e].compositePK = Len(pks) > 1]
    IN  processPropertyList(md0, e, PropNames(md[e]))

RECURSIVE definePivotTableEntities(_, _, _)
\* .map(prop => this.definePivotTableEntity(meta, prop)) over the ManyToMany owners
definePivotTableEntities(md, e, names) ==
    IF names = <<>> THEN md
    ELSE CHOOSE result \in {definePivotTableEntities(next, e, Tail(names)) :
                                next \in {definePivotTableEntity(md, e, Head(names))}} : TRUE

\* processEntity(meta): the metadata after the call
processEntity(md, e) ==
    CHOOSE result \in
        {definePivotTableEntities(named, e, pivotOwners(named[e])) :
            named \in {processProperties(md, e)}} : TRUE

\* the body of the loop of autoWireBidirectionalProperties
autoWireProperty(md, e, name) ==
    LET prop == PropertyOf(md[e], name)
    IN  IF prop.reference # SCALAR /\ ~prop.owner /\ prop.mappedBy # ""
            /\ HasProperty(md[prop.type], prop.mappedBy)
            /\ PropertyOf(md[prop.type], prop.mappedBy).inversedBy = ""
        THEN SetProp(md, prop.type,
                [PropertyOf(md[prop.type], prop.mappedBy) EXCEPT !.inversedBy = prop.name])
        ELSE md

RECURSIVE autoWireProperties(_, _, _)
\* Object.values(meta.properties).filter(...).forEach(prop => ...)
autoWireProperties(md, e, names) ==
    IF names = <<>> THEN md
    ELSE CHOOSE result \in {autoWireProperties(next, e, Tail(names)) :
                                next \in {autoWireProperty(md, e, Head(names))}} : TRUE

\* autoWireBidirectionalProperties(meta)
autoWireBidirectionalProperties(md, e) == autoWireProperties(md, e, PropNames(md[e]))

RECURSIVE autoWireEntities(_, _)
\* filtered.forEach(meta => this.autoWireBidirectionalProperties(meta))
autoWireEntities(md, ents) ==
    IF ents = <<>> THEN md
    ELSE CHOOSE result \in {autoWireEntities(next, Tail(ents)) :
                                next \in {autoWireBidirectionalProperties(md, Head(ents))}} : TRUE

----------------------------------------------------------------------------
(* MetadataDiscovery.discover(): the passes over the discovered entities *)

\* filtered.forEach(meta => Object.values(meta.properties).forEach(prop => ...)):
\* the passes that complete every property on its own, initFieldName and
\* initColumnType; they read what the declarations give
initProperties(md) ==
    [e \in DOMAIN md |->
        [md[e] EXCEPT !.props = [i \in DOMAIN md[e].props |->
            [md[e].props[i] EXCEPT
                !.fieldNames = initFieldName(md, md[e].props[i]),
                !.columnTypes = initColumnType(md, md[e].props[i])]]]]

RECURSIVE processEntities(_, _)
\* filtered.forEach(meta => this.discovered.push(...this.processEntity(meta)))
processEntities(md, ents) ==
    IF ents = <<>> THEN md
    ELSE CHOOSE result \in {processEntities(next, Tail(ents)) :
                                next \in {processEntity(md, Head(ents))}} : TRUE

\* discover(): the metadata after the passes over the entities found, taken in
\* the order `filtered`
discover(md, filtered) ==
    CHOOSE result \in
        {processEntities(wired, filtered) :
            wired \in {autoWireEntities(named, filtered) :
                            named \in {initProperties(md)}}} : TRUE

\* the passes of discover() that complete every property on its own: field
\* names (initFieldName) and column types (initColumnType)
InitFieldNames ==
    /\ pc = "discovered"
    /\ metadata' = initProperties(metadata)
    /\ pc' = "named"
    /\ UNCHANGED <<entities, schema, platform, ddl, diffs, err, args, queue, condition, queries, row, em>>

\* filtered.forEach(meta => this.autoWireBidirectionalProperties(meta))
AutoWire ==
    /\ pc = "named"
    /\ metadata' = autoWireEntities(metadata, entities)
    /\ queue' = entities
    /\ pc' = "wired"
    /\ UNCHANGED <<entities, schema, platform, ddl, diffs, err, args, condition, queries, row, em>>

\* filtered.forEach(meta => this.discovered.push(...this.processEntity(meta))), one entity
ProcessEntity ==
    /\ pc = "wired"
    /\ queue # <<>>
    /\ \E processed \in {processEntity(metadata, Head(queue))} :
        /\ metadata' = processed
        /\ entities' = entities
                \o [i \in DOMAIN pivotOwners(processed[Head(queue)]) |->
                        PropertyOf(processed[Head(queue)],
                                   pivotOwners(processed[Head(queue)])[i]).pivotTable]
    /\ queue' = Tail(queue)
    /\ pc' = IF Tail(queue) = <<>> THEN "resolved" ELSE "wired"
    /\ UNCHANGED <<schema, platform, ddl, diffs, err, args, condition, queries, row, em>>

----------------------------------------------------------------------------
(* Initial states: the declarations of two entities, before discovery *)

\* what a drawn declaration gives explicitly
Declarations ==
  {d \in
    [pk : {"single", "composite"},      \* the primary key of Person
     named : BOOLEAN,                   \* friends names its join columns
     fixedOrder : BOOLEAN,              \* friends keeps a fixed order
     inverse : BOOLEAN,                 \* Person declares the mapped side friendOf
     reference : {MANY_TO_ONE, ONE_TO_ONE},   \* the kind of Tag.owner
     override : {"none", "fieldName", "joinColumn"},    \* how Tag.owner names its column
     referenced : BOOLEAN,              \* Tag.owner names the columns it references
     tags : {"none", "derived", "named"},   \* Person.tags <-> Tag.people, its join columns
     owned : {"none", "derived", "named"}] :    \* Person.owned mapped by Tag.owner, its join column
    d.owned # "none" => d.reference = MANY_TO_ONE}

\* the columns Tag.owner references when it names them itself
DeclaredReferenced == <<"email">>

\* EntitySchema.init(), for one property: the column names an owning ManyToOne
\* or OneToOne property gives as fieldName or as joinColumn are both its field
\* names and its join columns
EntitySchemaInit(prop) ==
    IF prop.reference \in {MANY_TO_ONE, ONE_TO_ONE} /\ prop.owner
    THEN [prop EXCEPT !.fieldNames = IF @ = <<>> THEN prop.joinColumns ELSE @,
                      !.joinColumns = IF @ = <<>> THEN prop.fieldNames ELSE @]
    ELSE prop

\* the declared scalar primary key
DeclaredKey(name) == [Declared(name, SCALAR, "number", FALSE) EXCEPT !.primary = TRUE]

\* Person(id | a, b; email; friends <-> friendOf; tags; owned), Tag(id; owner -> Person; people)
DeclaredMetadata(d) ==
    LET keys == IF d.pk = "single" THEN <<DeclaredKey("id")>>
                ELSE <<DeclaredKey("a"), DeclaredKey("b")>>
        friends == [Declared("friends", MANY_TO_MANY, "Person", TRUE) EXCEPT
                        !.joinColumns = IF ~d.named THEN <<>>
                                        ELSE [i \in DOMAIN keys |-> "left_" \o keys[i].name],
                        !.inverseJoinColumns = IF ~d.named THEN <<>>
                                        ELSE [i \in DOMAIN keys |-> "right_" \o keys[i].name],
                        !.fixedOrder = IF d.fixedOrder THEN "true" ELSE "unset",
                        !.options = IF d.named THEN {"joinColumns", "inverseJoinColumns"}
                                    ELSE {}]
        friendOf == [Declared("friendOf", MANY_TO_MANY, "Person", FALSE) EXCEPT
                        !.mappedBy = "friends"]
        tags == [Declared("tags", MANY_TO_MANY, "Tag", TRUE) EXCEPT
                        !.joinColumns = IF d.tags # "named" THEN <<>>
                                        ELSE [i \in DOMAIN keys |-> "p_" \o keys[i].name],
                        !.inverseJoinColumns = IF d.tags # "named" THEN <<>> ELSE <<"t_id">>,
                        !.options = IF d.tags = "named"
                                    THEN {"joinColumns", "inverseJoinColumns"} ELSE {}]
        people == [Declared("people", MANY_TO_MANY, "Person", FALSE) EXCEPT
                        !.mappedBy = "tags"]
        owner == EntitySchemaInit(
                 [Declared("owner", d.reference, "Person", TRUE) EXCEPT
                        !.joinColumns = IF d.override # "joinColumn" THEN <<>>
                                        ELSE [i \in DOMAIN keys |-> "owned_by_" \o keys[i].name],
                        !.fieldNames = IF d.override # "fieldName" THEN <<>>
                                       ELSE [i \in DOMAIN keys |-> "owned_by_" \o keys[i].name],
                        !.referencedColumnNames = IF d.referenced THEN DeclaredReferenced ELSE <<>>,
                        !.options = (IF d.override = "joinColumn" THEN {"joinColumns"} ELSE {})
                                    \cup (IF d.override = "fieldName" THEN {"fieldNames"} ELSE {})
                                    \cup (IF d.referenced THEN {"referencedColumnNames"}
                                          ELSE {})])
        owned == [Declared("owned", ONE_TO_MANY, "Tag", FALSE) EXCEPT
                        !.mappedBy = "owner",
                        !.joinColumns = IF d.owned = "named" THEN <<"owned_by">> ELSE <<>>,
                        !.options = IF d.owned = "named" THEN {"joinColumns"} ELSE {}]
    IN  [e \in {"Person", "Tag"} |->
            IF e = "Person"
            THEN Meta("Person", "person", "Person",
                      keys \o <<Declared("email", SCALAR, "string", FALSE), friends>>
                      \o (IF d.inverse THEN <<friendOf>> ELSE <<>>)
                      \o (IF d.tags # "none" THEN <<tags>> ELSE <<>>)
                      \o (IF d.owned # "none" THEN <<owned>> ELSE <<>>))
            ELSE Meta("Tag", "tag", "Tag", <<DeclaredKey("id"), owner>>
                      \o (IF d.tags # "none" THEN <<people>> ELSE <<>>))]

InitResolve ==
    /\ \E d \in Declarations : metadata = DeclaredMetadata(d)
    /\ entities \in {<<"Person", "Tag">>, <<"Tag", "Person">>}
    /\ schema = <<>>
    /\ platform = FullPlatform
    /\ ddl = <<>>
    /\ diffs = NoDiffs
    /\ err = "none"
    /\ pc = "discovered"
    /\ args = DefaultArgs
    /\ queue = <<>>
    /\ condition = NoCondition
    /\ queries = <<>>
    /\ row = NoRow
    /\ em = NoManagers

----------------------------------------------------------------------------
(* MetadataDiscovery: single table inheritance and base entities *)

\* bound: the subclasses of the hierarchy
MaxSubclasses == 2

\* namingStrategy.classToTableName(entityName)
classToTableName(entityName) == underscore(entityName)

\* an entity class as declared: the metadata of the resolver and what it
\* extends, its discriminator and the properties it declares itself
DeclaredClass(name, extends, discriminatorColumn, props) ==
    [extends |-> extends, discriminatorColumn |-> discriminatorColumn,
     discriminatorMap |-> <<>>, discriminatorValue |-> "", declared |-> props]
        @@ Meta(name, classToTableName(name), name, props)

RECURSIVE getRootEntity(_, _)
\* Utils.getRootEntity(metadata, meta): the name of the root of the hierarchy
getRootEntity(md, e) ==
    IF md[e].extends = "" \/ md[e].extends \notin DOMAIN md \/ md[e].extends = e THEN e
    ELSE IF md[getRootEntity(md, md[e].extends)].discriminatorColumn # ""
    THEN getRootEntity(md, md[e].extends)
    ELSE e

\* Utils.unique([...a, ...b])
Unique(a, b) == Distinct(a \o b)

\* createDiscriminatorProperty(meta)
createDiscriminatorProperty(md, meta) ==
    LET prop == [Declared(meta.discriminatorColumn, SCALAR, "string", FALSE) EXCEPT
                    !.enum = TRUE, !.index = "true",
                    !.items = [i \in DOMAIN meta.discriminatorMap |->
                                    meta.discriminatorMap[i].name]]
    IN  [prop EXCEPT !.fieldNames = initFieldName(md, prop),
                     !.columnTypes = initColumnType(md, prop)]

\* root.properties[prop.name] = Utils.copy(prop), nullable, inherited when new
inheritProperty(props, prop) ==
    IF \E i \in DOMAIN props : props[i].name = prop.name
    THEN [i \in DOMAIN props |->
            IF props[i].name = prop.name THEN [prop EXCEPT !.nullable = TRUE] ELSE props[i]]
    ELSE Append(props, [prop EXCEPT !.nullable = TRUE, !.inherited = TRUE])

RECURSIVE inheritProperties(_, _)
\* Object.values(meta.properties).forEach(prop => ...) of initSingleTableInheritance
inheritProperties(props, list) ==
    IF list = <<>> THEN props
    ELSE inheritProperties(inheritProperty(props, Head(list)), Tail(list))

\* initSingleTableInheritance(meta): the metadata after the call; `order` is
\* the order of the entities in the metadata storage
initSingleTableInheritance(md, order, e) ==
    LET r == getRootEntity(md, e)
        children == SelectSeq(order, LAMBDA m : getRootEntity(md, m) = r)
        map == IF md[r].discriminatorMap # <<>> THEN md[r].discriminatorMap
               ELSE [i \in DOMAIN children |->
                        [name |-> IF md[children[i]].discriminatorValue # ""
                                  THEN md[children[i]].discriminatorValue
                                  ELSE classToTableName(children[i]),
                         className |-> children[i]]]
        md1 == [md EXCEPT ![r].discriminatorMap = map]
        md2 == [md1 EXCEPT ![e].discriminatorValue =
                    IF \E i \in DOMAIN map : map[i].className = e
                    THEN map[CHOOSE i \in DOMAIN map : map[i].className = e].name
                    ELSE ""]
        md3 == IF HasProperty(md2[r], md2[r].discriminatorColumn) THEN md2
               ELSE [md2 EXCEPT ![r].props = Append(@, createDiscriminatorProperty(md2, md2[r]))]
    IN  IF md[r].discriminatorColumn = "" THEN md
        ELSE IF r = e THEN md3
        ELSE [md3 EXCEPT ![r].props = inheritProperties(@, md3[e].props),
                         ![r].indexes = Unique(@, md3[e].indexes),
                         ![r].uniques = Unique(@, md3[e].uniques)]

\* { ...base.properties, ...meta.properties }
Spread(base, own) ==
    [i \in DOMAIN base |->
        IF \E k \in DOMAIN own : own[k].name = base[i].name
        THEN own[CHOOSE k \in DOMAIN own : own[k].name = base[i].name]
        ELSE base[i]]
    \o SelectSeq(own, LAMBDA prop : \A i \in DOMAIN base : base[i].name # prop.name)

RECURSIVE defineBaseEntityProperties(_, _)
\* defineBaseEntityProperties(meta): the metadata after the call
defineBaseEntityProperties(md, e) ==
    IF md[e].extends = "" \/ md[e].extends \notin DOMAIN md \/ md[e].extends = e THEN md
    ELSE CHOOSE result \in
        {[md1 EXCEPT
            ![e].props = Spread(md1[md[e].extends].props, @),
            ![e].indexes = Unique(md1[md[e].extends].indexes, @),
            ![e].uniques = Unique(md1[md[e].extends].uniques, @),
            ![e].primaryKeys =
                IF @ = <<>>
                THEN PropNames([props |-> SelectSeq(Spread(md1[md[e].extends].props,
                                                           md1[e].props),
                                                    LAMBDA prop : prop.primary)])
                ELSE @] :
         md1 \in {defineBaseEntityProperties(md, md[e].extends)}} : TRUE

\* filtered.forEach(meta => this.initSingleTableInheritance(meta)), one entity
InitSingleTableInheritance ==
    /\ pc = "inheritance"
    /\ queue # <<>>
    /\ metadata' = initSingleTableInheritance(metadata, entities, Head(queue))
    /\ queue' = IF Tail(queue) = <<>> THEN entities ELSE Tail(queue)
    /\ pc' = IF Tail(queue) = <<>> THEN "base" ELSE "inheritance"
    /\ UNCHANGED <<entities, schema, platform, ddl, diffs, err, args, condition, queries, row, em>>

\* filtered.forEach(meta => this.defineBaseEntityProperties(meta)), one entity
\* of one of the two passes of discover()
DefineBaseEntityProperties ==
    /\ pc \in {"base", "base again"}
    /\ queue # <<>>
    /\ metadata' = defineBaseEntityProperties(metadata, Head(queue))
    /\ queue' = IF Tail(queue) = <<>> /\ pc = "base" THEN entities ELSE Tail(queue)
    /\ pc' = IF Tail(queue) # <<>> THEN pc
             ELSE IF pc = "base" THEN "base again" ELSE "based"
    /\ UNCHANGED <<entities, schema, platform, ddl, diffs, err, args, condition, queries, row, em>>

NextInherit == InitSingleTableInheritance \/ DefineBaseEntityProperties

RECURSIVE initSingleTableInheritances(_, _, _)
\* filtered.forEach(meta => this.initSingleTableInheritance(meta))
initSingleTableInheritances(md, order, ents) ==
    IF ents = <<>> THEN md
    ELSE CHOOSE result \in
            {initSingleTableInheritances(next, order, Tail(ents)) :
                next \in {initSingleTableInheritance(md, order, Head(ents))}} : TRUE

RECURSIVE defineBaseEntities(_, _)
\* filtered.forEach(meta => this.defineBaseEntityProperties(meta))
defineBaseEntities(md, ents) ==
    IF ents = <<>> THEN md
    ELSE CHOOSE result \in
            {defineBaseEntities(next, Tail(ents)) :
                next \in {defineBaseEntityProperties(md, Head(ents))}} : TRUE

\* discover(): the metadata after the inheritance pass and the two passes over
\* the base entities, with the entities found taken in the order `filtered`
discoverInheritance(md, filtered) ==
    CHOOSE result \in
        {defineBaseEntities(based, filtered) :
            based \in {defineBaseEntities(merged, filtered) :
                merged \in {initSingleTableInheritances(md, filtered, filtered)}}} : TRUE

----------------------------------------------------------------------------
(* Initial states: a hierarchy of entity classes, before discovery *)

\* the classes that may extend the root, in the order they are declared
Subclasses == <<"Employee", "Manager", "Intern">>

\* the names a subclass may declare a property under; `name` is also declared
\* by the root
SubclassProperties == {"name", "salary", "level"}

\* the hierarchies: how many subclasses there are, which class each extends,
\* the properties each declares, whether the root has a discriminator column
\* and whether the root's `name` is nullable
Hierarchies ==
    {h \in [n : 0..MaxSubclasses,
            extends : [1..Len(Subclasses) -> {"Base"} \cup SeqToSet(Subclasses)],
            props : [1..Len(Subclasses) -> SUBSET SubclassProperties],
            discriminator : BOOLEAN, nullable : BOOLEAN] :
        /\ h.n <= Len(Subclasses)
        /\ \A i \in 1..Len(Subclasses) :
            IF i <= h.n
            THEN h.extends[i] \in {"Base"} \cup {Subclasses[k] : k \in 1..(i - 1)}
            ELSE h.extends[i] = "Base" /\ h.props[i] = {}}

\* a property a class declares itself, not nullable unless said so
DeclaredScalar(name, type, nullable) ==
    [Declared(name, SCALAR, type, FALSE) EXCEPT !.nullable = nullable]

\* the type a subclass declares its `level` with: a grade for a manager, a
\* number for the others
LevelType(e) == IF e = "Manager" THEN "string" ELSE "number"

\* Base(id, name), Employee, Manager, ... with what they declare themselves
DeclaredHierarchy(h) ==
    [e \in {"Base"} \cup {Subclasses[i] : i \in 1..h.n} |->
        IF e = "Base"
        THEN DeclaredClass("Base", "", IF h.discriminator THEN "type" ELSE "",
                           <<DeclaredKey("id"), DeclaredScalar("name", "string", h.nullable)>>)
        ELSE [DeclaredClass(e, h.extends[PosOf(Subclasses, e)], "",
                    SelectSeq(<<DeclaredScalar("name", "string", FALSE),
                                DeclaredScalar("salary", "number", FALSE),
                                DeclaredScalar("level", LevelType(e), FALSE)>>,
                              LAMBDA prop : prop.name \in h.props[PosOf(Subclasses, e)]))
                EXCEPT !.collection = IF h.discriminator THEN classToTableName("Base") ELSE @]]

InitInherit ==
    /\ \E h \in Hierarchies :
        /\ metadata = DeclaredHierarchy(h)
        /\ entities \in {<<"Base">> \o SubSeq(Subclasses, 1, h.n),
                         Reverse(<<"Base">> \o SubSeq(Subclasses, 1, h.n))}
    /\ queue = entities
    /\ condition = NoCondition
    /\ queries = <<>>
    /\ row = NoRow
    /\ em = NoManagers
    /\ schema = <<>>
    /\ platform = FullPlatform
    /\ ddl = <<>>
    /\ diffs = NoDiffs
    /\ err = "none"
    /\ pc = "inheritance"
    /\ args = DefaultArgs

SpecInherit == InitInherit /\ [][NextInherit]_vars

----------------------------------------------------------------------------
(* Properties: the resolved join columns *)

\* the declared (not synthesized) entities
DeclaredEntities == {e \in DOMAIN metadata : ~metadata[e].pivotTable}

\* the columns of the primary key of an entity, in the order of its properties
PrimaryKeyColumns(meta) ==
    Flatten([k \in 1..Len(SelectSeq(meta.props, LAMBDA prop : prop.primary)) |->
                SelectSeq(meta.props, LAMBDA prop : prop.primary)[k].fieldNames])

\* a ManyToOne or owning OneToOne property that does not give its join columns
DerivesJoinColumns(prop) ==
    /\ prop.reference \in {MANY_TO_ONE, ONE_TO_ONE}
    /\ prop.owner
    /\ prop.options \cap {"joinColumns", "fieldNames"} = {}

\* one join column per column of the target's primary key, the i-th derived
\* from the i-th
DerivedPerKeyColumn(prop) ==
    LET columns == PrimaryKeyColumns(metadata[prop.type])
    IN  /\ Len(prop.joinColumns) = Len(columns)
        /\ \A i \in DOMAIN columns :
            prop.joinColumns[i] = joinKeyColumnName(prop.name, columns[i], Len(columns) > 1)

\* C9, as claimed: after resolution every ManyToOne or owning OneToOne property
\* whose join columns are derived has one join column per column of the target's
\* primary key, the i-th derived from the i-th column of the key and paired
\* with it in referencedColumnNames
C9_DerivedJoinColumnsPaired ==
    pc = "resolved" =>
        \A e \in DeclaredEntities : \A k \in DOMAIN metadata[e].props :
            DerivesJoinColumns(metadata[e].props[k]) =>
                /\ DerivedPerKeyColumn(metadata[e].props[k])
                /\ metadata[e].props[k].referencedColumnNames
                        = PrimaryKeyColumns(metadata[metadata[e].props[k].type])

\* C9, amended: after resolution every ManyToOne or owning OneToOne property
\* whose join columns are derived has one join column per column of the target's
\* primary key, the i-th derived from the i-th column of the key;
\* referencedColumnNames pairs them with the columns of the key unless the
\* property gives the referenced columns itself, which are then kept as given
C9_DerivedJoinColumns ==
    pc = "resolved" =>
        \A e \in DeclaredEntities : \A k \in DOMAIN metadata[e].props :
            DerivesJoinColumns(metadata[e].props[k]) =>
                /\ DerivedPerKeyColumn(metadata[e].props[k])
                /\ metadata[e].props[k].referencedColumnNames
                        = IF "referencedColumnNames" \in metadata[e].props[k].options
                          THEN DeclaredReferenced
                          ELSE PrimaryKeyColumns(metadata[metadata[e].props[k].type])

\* a resolved relation to a composite key whose two join columns were derived
C9_Witness ==
    /\ pc = "resolved"
    /\ DerivesJoinColumns(PropertyOf(metadata["Tag"], "owner"))
    /\ PropertyOf(metadata["Tag"], "owner").joinColumns = <<"owner_a", "owner_b">>
    /\ PropertyOf(metadata["Tag"], "owner").referencedColumnNames = <<"a", "b">>

\* the owning ManyToMany properties whose target is their own entity
SelfReferences ==
    {<<e, k>> \in DeclaredEntities \X (1..8) :
        /\ k \in DOMAIN metadata[e].props
        /\ metadata[e].props[k].reference = MANY_TO_MANY
        /\ metadata[e].props[k].owner
        /\ metadata[e].props[k].type = e}

\* the ManyToOne properties of a pivot entity map to disjoint sets of columns
PivotColumnsDisjoint(pivot) ==
    \A i, j \in DOMAIN pivot.props :
        (i # j /\ pivot.props[i].reference = MANY_TO_ONE /\ pivot.props[j].reference = MANY_TO_ONE)
            => SeqToSet(pivot.props[i].fieldNames) \cap SeqToSet(pivot.props[j].fieldNames) = {}

\* C10: after pivot synthesis the joinColumns and inverseJoinColumns of an owning
\* ManyToMany property whose target is its own entity have no name in common,
\* the two ManyToOne properties of the pivot entity map to disjoint columns, and
\* a mapped inverse side carries the same two sets swapped
C10_SelfReferenceDisjoint ==
    pc = "resolved" =>
        \A r \in SelfReferences :
            LET prop == metadata[r[1]].props[r[2]]
            IN  /\ SeqToSet(prop.joinColumns) \cap SeqToSet(prop.inverseJoinColumns) = {}
                /\ prop.pivotTable \in DOMAIN metadata
                /\ PivotColumnsDisjoint(metadata[prop.pivotTable])
                /\ \A k \in DOMAIN metadata[prop.type].props :
                    LET prop2 == metadata[prop.type].props[k]
                    IN  (prop2.reference = MANY_TO_MANY /\ prop2.mappedBy = prop.name)
                            => /\ prop2.joinColumns = prop.inverseJoinColumns
                               /\ prop2.inverseJoinColumns = prop.joinColumns

\* a resolved self-reference with derived names, told apart and mirrored
C10_Witness ==
    /\ pc = "resolved"
    /\ HasProperty(metadata["Person"], "friendOf")
    /\ PropertyOf(metadata["Person"], "friends").joinColumns = <<"person_1_id">>
    /\ PropertyOf(metadata["Person"], "friends").inverseJoinColumns = <<"person_2_id">>
    /\ PropertyOf(metadata["Person"], "friendOf").joinColumns = <<"person_2_id">>
    /\ PropertyOf(metadata["Person"], "friendOf").inverseJoinColumns = <<"person_1_id">>

----------------------------------------------------------------------------
(* Properties: the pivot entities *)

\* the owning ManyToMany properties that a pivot entity was synthesized for
PivotOwnersOf(pivot) ==
    {prop \in UNION {SeqToSet(metadata[e].props) : e \in DeclaredEntities} :
        prop.reference = MANY_TO_MANY /\ prop.owner /\ prop.pivotTable = pivot.name}

\* the entity that declares a property
DeclaringEntity(prop) ==
    CHOOSE e \in DeclaredEntities : prop \in SeqToSet(metadata[e].props)

\* the ManyToOne properties of an entity
ManyToOnes(meta) == SelectSeq(meta.props, LAMBDA prop : prop.reference = MANY_TO_ONE)

\* the synthesized entities
PivotEntities == {e \in DOMAIN metadata : metadata[e].pivotTable}

\* the pivot entity has two ManyToOne properties, the first to the owning entity
\* and the second to the target of the ManyToMany property
TwoReferences(pivot) ==
    /\ Len(ManyToOnes(pivot)) = 2
    /\ \A prop \in PivotOwnersOf(pivot) :
        /\ ManyToOnes(pivot)[1].type = DeclaringEntity(prop)
        /\ ManyToOnes(pivot)[2].type = prop.type

\* C11, as claimed: every synthesized pivot entity has exactly two ManyToOne
\* properties, one referencing the owning entity and one the target entity, and
\* both are owning sides
C11_PivotTwoOwners ==
    pc = "resolved" =>
        \A e \in PivotEntities :
            /\ TwoReferences(metadata[e])
            /\ \A k \in DOMAIN ManyToOnes(metadata[e]) : ManyToOnes(metadata[e])[k].owner

\* C11, amended: every synthesized pivot entity has exactly two ManyToOne
\* properties, one referencing the owning entity and one the target entity; the
\* first is the owning side (owner = true, inversedBy the second), the second is
\* its mapped side (owner = false, mappedBy the first), and each maps to its own
\* join columns
C11_PivotOwnerAndInverse ==
    pc = "resolved" =>
        \A e \in PivotEntities :
            /\ TwoReferences(metadata[e])
            /\ ManyToOnes(metadata[e])[1].owner
            /\ ManyToOnes(metadata[e])[1].inversedBy = ManyToOnes(metadata[e])[2].name
            /\ ~ManyToOnes(metadata[e])[2].owner
            /\ ManyToOnes(metadata[e])[2].mappedBy = ManyToOnes(metadata[e])[1].name
            /\ \A prop \in PivotOwnersOf(metadata[e]) :
                /\ ManyToOnes(metadata[e])[1].joinColumns = prop.joinColumns
                /\ ManyToOnes(metadata[e])[2].joinColumns = prop.inverseJoinColumns

\* a resolved pivot entity with a fixed order: a primary key and the two references
C11_Witness ==
    /\ pc = "resolved"
    /\ "person_to_person" \in PivotEntities
    /\ Len(metadata["person_to_person"].props) = 3
    /\ PivotOwnersOf(metadata["person_to_person"]) # {}

----------------------------------------------------------------------------
(* Properties: the two sides of a ManyToMany relation *)

\* the mapped sides of the ManyToMany relations, each with its owning side
ManyToManyPairs ==
    {pair \in [inverse : UNION {SeqToSet(metadata[e].props) : e \in DeclaredEntities},
               owner : UNION {SeqToSet(metadata[e].props) : e \in DeclaredEntities}] :
        /\ pair.inverse.reference = MANY_TO_MANY
        /\ pair.inverse.mappedBy # ""
        /\ pair.owner.reference = MANY_TO_MANY
        /\ pair.owner.owner
        /\ pair.owner.name = pair.inverse.mappedBy
        /\ pair.owner \in SeqToSet(metadata[pair.inverse.type].props)}

\* C12: after resolution the mapped side of every bidirectional ManyToMany pair
\* has the pivot table and the fixed order of its owning side, the owner's
\* inverseJoinColumns as its joinColumns and the owner's joinColumns as its
\* inverseJoinColumns, whether the owner derived its names or declared them
C12_InverseMirrorsOwner ==
    pc = "resolved" =>
        \A pair \in ManyToManyPairs :
            /\ pair.inverse.pivotTable = pair.owner.pivotTable
            /\ pair.inverse.fixedOrder = pair.owner.fixedOrder
            /\ pair.inverse.joinColumns = pair.owner.inverseJoinColumns
            /\ pair.inverse.inverseJoinColumns = pair.owner.joinColumns

\* a resolved pair between two entities whose owner derived its names, mirrored
C12_Witness ==
    /\ pc = "resolved"
    /\ \E pair \in ManyToManyPairs :
        /\ pair.owner.name = "tags"
        /\ pair.owner.options = {}
        /\ pair.owner.joinColumns = <<"person_a", "person_b">>
        /\ pair.inverse.joinColumns = <<"tag_id">>
        /\ pair.inverse.inverseJoinColumns = <<"person_a", "person_b">>
        /\ pair.inverse.pivotTable = "person_to_tag"

----------------------------------------------------------------------------
(* Properties: the root of a single table inheritance hierarchy *)

\* the hierarchy of Base has been merged into its root
HierarchyMerged == pc # "inheritance" /\ metadata["Base"].discriminatorColumn # ""

\* the property as the root declares it, if it does
DeclaredOnRoot(name) ==
    {prop \in SeqToSet(metadata["Base"].declared) : prop.name = name}

\* C13: after resolution of a single table inheritance hierarchy the root's
\* properties contain every property of every subclass; a property that comes
\* only from a subclass is nullable and tagged inherited, a property the root
\* declares itself keeps the nullability the root declares, for every number of
\* subclasses and every overlap of property names
C13_RootHoldsUnion ==
    HierarchyMerged =>
        /\ \A e \in DOMAIN metadata : \A k \in DOMAIN metadata[e].declared :
            HasProperty(metadata["Base"], metadata[e].declared[k].name)
        /\ \A i \in DOMAIN metadata["Base"].props :
            LET prop == metadata["Base"].props[i]
            IN  IF DeclaredOnRoot(prop.name) # {}
                THEN \A own \in DeclaredOnRoot(prop.name) : prop.nullable = own.nullable
                ELSE prop.name # metadata["Base"].discriminatorColumn
                        => prop.nullable /\ prop.inherited

\* a merged hierarchy of two subclasses that declare different properties
C13_Witness ==
    /\ pc = "based"
    /\ metadata["Base"].discriminatorColumn # ""
    /\ DOMAIN metadata = {"Base", "Employee", "Manager"}
    /\ PropNames([props |-> metadata["Employee"].declared]) = <<"salary">>
    /\ PropNames([props |-> metadata["Manager"].declared]) = <<"level">>
    /\ PropertyOf(metadata["Base"], "salary").inherited
    /\ PropertyOf(metadata["Base"], "level").nullable
    /\ ~PropertyOf(metadata["Base"], "name").nullable

----------------------------------------------------------------------------
(* QueryBuilderHelper: regular expressions                                  *)
(* A string the helper takes apart is a sequence of one-character strings.  *)

\* a regular expression's source has at most this many characters
MaxSource == 4

\* the characters a source is written with: a letter, the wildcard, the
\* quantifier, the escape and the two anchors
RegExpAlphabet == {"a", ".", "*", "\\", "^", "$"}

\* new RegExp(source) accepts the source: the quantifier follows an atom (a
\* character or an escaped character), an escape is followed by a character
RECURSIVE validSource(_)
validSource(s) ==
    IF s = <<>> THEN TRUE
    ELSE IF s[1] = "*" THEN FALSE
    ELSE IF s[1] \in {"^", "$"}
        THEN IF Len(s) = 1 THEN TRUE ELSE s[2] # "*" /\ validSource(Tail(s))
    ELSE LET n == IF s[1] = "\\" THEN 2 ELSE 1
             rest == SubSeq(s, n + 1, Len(s))
         IN  /\ Len(s) >= n
             /\ validSource(IF rest # <<>> /\ rest[1] = "*" THEN Tail(rest) ELSE rest)

\* String.prototype.replace(/ab/g, r): every occurrence of the two characters
\* a b, found from left to right, is replaced by r
RECURSIVE replacePair(_, _, _, _)
replacePair(s, a, b, r) ==
    IF Len(s) < 2 THEN s
    ELSE IF s[1] = a /\ s[2] = b THEN r \o replacePair(SubSeq(s, 3, Len(s)), a, b, r)
    ELSE <<s[1]>> \o replacePair(Tail(s), a, b, r)

\* String.prototype.replace(/a/g, r): every character a is replaced by r
replaceChar(s, a, r) == [i \in DOMAIN s |-> IF s[i] = a THEN r ELSE s[i]]

\* String.prototype.replace(/^a/g, ''): the character a at the start is removed
replaceStart(s, a) == IF s # <<>> /\ s[1] = a THEN Tail(s) ELSE s

\* String.prototype.replace(/a$/g, ''): the character a at the end is removed
replaceEnd(s, a) == IF s # <<>> /\ s[Len(s)] = a THEN SubSeq(s, 1, Len(s) - 1) ELSE s

\* a regular expression with the given source, stored under the given key
RegExp(key, source) ==
    Node("regexp", key, "", [i \in DOMAIN source |-> Node("char", "", source[i], <<>>)])

\* re.source
Source(re) == [i \in DOMAIN re.items |-> re.items[i].atom]

\* isSimpleRegExp: a RegExp whose source has none of the characters { [ (
isSimpleRegExp(re) ==
    /\ re.kind = "regexp"
    /\ \A i \in DOMAIN re.items : re.items[i].atom \notin {"{", "[", "("}

\* getRegExpParam: the LIKE pattern the source is rewritten to
getRegExpParam(re) ==
    LET source == Source(re)
        value ==
            replaceEnd(
                replaceStart(
                    replacePair(
                        replaceChar(replacePair(source, ".", "*", <<"%">>), ".", "_"),
                        "\\", "_", <<".">>),
                    "^"),
                "$")
        startsWith == source # <<>> /\ source[1] = "^"
        endsWith == source # <<>> /\ source[Len(source)] = "$"
    IN  IF startsWith /\ endsWith THEN value
        ELSE IF startsWith THEN value \o <<"%">>
        ELSE IF endsWith THEN <<"%">> \o value
        ELSE <<"%">> \o value \o <<"%">>

----------------------------------------------------------------------------
(* knex: the clauses of a query builder or of a join clause                 *)
(* (its code is not part of the sources; modelled from its documented       *)
(* behaviour: a call with a callback adds one nested, parenthesized group)  *)

\* the value of a clause that has none
NoValue == Node("undefined", "", "", <<>>)

\* a scalar value
Scalar(key, atom) == Node("scalar", key, atom, <<>>)

\* the value of a node without the key it was stored under
ValueOf(node) == [node EXCEPT !.key = ""]

\* the clause list a method of the builder writes to
methodGrouping(m) ==
    IF m = "having" THEN "having"
    ELSE IF m \in {"on", "andOn", "orOn"} THEN "on"
    ELSE "where"

\* the connective a method of the builder joins its clause with
methodBool(m) == IF m \in {"orWhere", "orWhereNot", "orOn"} THEN "or" ELSE "and"

\* qb.where(column, operator, value) and its variants named m
whereBasic(qb, m, column, operator, value) ==
    Append(qb, [grouping |-> methodGrouping(m), bool |-> methodBool(m),
                not |-> m \in {"whereNot", "orWhereNot"}, type |-> "basic",
                column |-> column, operator |-> operator, value |-> ValueOf(value),
                clauses |-> <<>>])

\* qb.where(callback) and its variants named m; clauses is what the callback
\* wrote to the builder it was handed
whereWrapped(qb, m, clauses) ==
    Append(qb, [grouping |-> methodGrouping(m), bool |-> methodBool(m),
                not |-> m \in {"whereNot", "orWhereNot"}, type |-> "wrapped",
                column |-> "", operator |-> "", value |-> NoValue,
                clauses |-> clauses])

\* the placeholder of a clause's value
placeholder(clause) ==
    IF clause.value.kind = "null" /\ clause.grouping # "on" THEN "null"
    ELSE IF clause.value.kind \in {"raw", "ref"} THEN clause.value.atom
    ELSE IF clause.value.kind = "array"
        THEN "(" \o Join([i \in DOMAIN clause.value.items |-> "?"], ", ") \o ")"
    ELSE "?"

RECURSIVE compileClauses(_, _)
\* the SQL of one clause; a nested group is compiled from its where clauses
\* (its on clauses in a join), put in parentheses and left out when it is empty
compileClause(clause) ==
    IF clause.type = "basic"
    THEN clause.column \o " " \o clause.operator \o " " \o placeholder(clause)
    ELSE CHOOSE sql \in
            {IF inner = "" THEN ""
             ELSE (IF clause.not THEN "not " ELSE "") \o "(" \o inner \o ")" :
                inner \in {compileClauses(clause.clauses,
                                IF clause.grouping = "on" THEN "on" ELSE "where")}} : TRUE

\* the clauses of one grouping that compile to something, each with its
\* connective
compiledClauses(clauses, grouping) ==
    SelectSeq([i \in DOMAIN clauses |->
                    [bool |-> clauses[i].bool,
                     sql |-> IF clauses[i].grouping = grouping
                             THEN compileClause(clauses[i]) ELSE ""]],
              LAMBDA part : part.sql # "")

RECURSIVE joinClauses(_, _)
\* the compiled clauses from the i-th on, the first without its connective
joinClauses(parts, i) ==
    IF i > Len(parts) THEN ""
    ELSE (IF i = 1 THEN "" ELSE " " \o parts[i].bool \o " ")
            \o parts[i].sql \o joinClauses(parts, i + 1)

\* the SQL of the clauses of one grouping
compileClauses(clauses, grouping) ==
    CHOOSE sql \in {joinClauses(parts, 1) :
                        parts \in {compiledClauses(clauses, grouping)}} : TRUE

RECURSIVE bindings(_, _)
\* the parameters of the clauses of one grouping, in the order of their
\* placeholders
clauseBindings(clause) ==
    IF clause.type = "wrapped"
    THEN bindings(clause.clauses, IF clause.grouping = "on" THEN "on" ELSE "where")
    ELSE IF clause.value.kind \in {"array", "raw"}
        THEN [i \in DOMAIN clause.value.items |-> clause.value.items[i].atom]
    ELSE IF clause.value.kind \in {"ref", "undefined"} THEN <<>>
    ELSE IF clause.value.kind = "null" /\ clause.grouping # "on" THEN <<>>
    ELSE <<clause.value.atom>>

bindings(clauses, grouping) ==
    Flatten([i \in DOMAIN clauses |->
                IF clauses[i].grouping = grouping THEN clauseBindings(clauses[i]) ELSE <<>>])

----------------------------------------------------------------------------
(* QueryBuilderHelper: the conditions of a WHERE or HAVING clause           *)
(* The helper is constructed for the entity Author under the alias e0, with *)
(* no sub-queries. Keys of a condition are property names (unprefixed, no   *)
(* custom expressions); the platform's full text clause is not modelled.    *)

entityName == "Author"

alias == "e0"

\* QueryOperator (core): the operator keys in the order of the enum, and what
\* each is replaced with
QueryOperatorKeys ==
    <<"$eq", "$in", "$nin", "$gt", "$gte", "$lt", "$lte", "$ne", "$not", "$like",
      "$fulltext", "$re">>

QueryOperator ==
    [op \in SeqToSet(QueryOperatorKeys) |->
        CASE op = "$eq" -> "="      [] op = "$ne" -> "!="
          [] op = "$in" -> "in"     [] op = "$nin" -> "not in"
          [] op = "$not" -> "not"   [] op = "$gt" -> ">"
          [] op = "$gte" -> ">="    [] op = "$lt" -> "<"
          [] op = "$lte" -> "<="    [] op = "$like" -> "like"
          [] op = "$fulltext" -> "fulltext"
          [] op = "$re" -> "regexp"]

\* Utils.isPlainObject
isPlainObject(value) == value.kind = "object"

\* Utils.getObjectKeysSize: the number of own keys (a RegExp has none)
getObjectKeysSize(value) == IF value.kind = "object" THEN Len(value.items) ELSE 0

\* Utils.isOperator
isOperator(key) == key \in SeqToSet(QueryOperatorKeys) \cup {"$and", "$or"}

\* Utils.splitPrimaryKeys: the parts of a key, separated by ~~~
splitPrimaryKeys(key) == IF key = "id~~~name" THEN <<"id", "name">> ELSE <<key>>

\* Object.keys(object)
Keys(object) == [i \in DOMAIN object.items |-> object.items[i].key]

\* key in object
HasKey(object, key) == \E i \in DOMAIN object.items : object.items[i].key = key

\* the index of a key of an object
IndexOfKey(object, key) == CHOOSE i \in DOMAIN object.items : object.items[i].key = key

\* what a step of the compilation leaves behind: the builder, the condition
\* as the step left it, and the error it threw ("" when it returned)
Step(qb, node, error) == [qb |-> qb, cond |-> node, err |-> error]

\* getProperty
getProperty(field) ==
    IF entityName \in DOMAIN metadata /\ HasProperty(metadata[entityName], field)
    THEN <<PropertyOf(metadata[entityName], field)>>
    ELSE <<>>

\* fieldName
fieldName(field) ==
    IF getProperty(field) = <<>> THEN field ELSE getProperty(field)[1].fieldNames[1]

\* mapper, for QueryType.SELECT: the column of a field, with the alias; the
\* column tuple of a composite key
mapper(field) ==
    LET fields == splitPrimaryKeys(field)
        column(f) ==
            IF getProperty(f) # <<>> /\ ~getProperty(f)[1].persist
            THEN fieldName(f)
            ELSE alias \o "." \o fieldName(f)
    IN  IF Len(fields) > 1
        THEN "(" \o Join([i \in DOMAIN fields |-> column(fields[i])], ", ") \o ")"
        ELSE column(field)

\* getOperatorReplacement
getOperatorReplacement(op, value) ==
    IF value.kind = "null" /\ op \in {"$eq", "$ne"}
    THEN IF op = "$eq" THEN "is" ELSE "is not"
    ELSE IF op = "$re" THEN platform.regExpOperator
    ELSE QueryOperator[op]

RECURSIVE appendQueryCondition(_, _, _, _)
RECURSIVE appendQueryConditionKeys(_, _, _, _, _)
RECURSIVE appendGroupCondition(_, _, _, _)
RECURSIVE appendGroupMembers(_, _, _, _)
RECURSIVE appendOrMembers(_, _, _, _)
RECURSIVE appendSubConditions(_, _, _, _)

\* processObjectSubCondition, for the i-th key of cond
processObjectSubCondition(cond, i, qb, method, m) ==
    LET key == cond.items[i].key
        given == cond.items[i]
        subCondition ==
            [j \in DOMAIN given.items |->
                Node("object", "", "", <<Node("object", key, "", <<given.items[j]>>)>>)]
        value ==
            IF given.kind = "regexp"
            THEN Node("object", key, "", <<Scalar("$re", Join(Source(given), ""))>>)
            ELSE given
        ops == SelectSeq(QueryOperatorKeys, LAMBDA op : HasKey(value, op))
        op == ops[1]
        at == IndexOfKey(value, op)
        fields == splitPrimaryKeys(key)
        raw ==
            Node("raw", op,
                 (IF platform.requiresValuesKeyword THEN "values " ELSE "")
                    \o "(" \o Join([f \in DOMAIN fields |-> "?"], ", ") \o ")",
                 value.items[at].items)
        rewritten ==
            IF /\ Len(fields) > 1
               /\ value.items[at].kind = "array"
               /\ ~\A v \in DOMAIN value.items[at].items :
                        value.items[at].items[v].kind = "array"
            THEN [value EXCEPT !.items[at] = raw]
            ELSE value
    IN  IF getObjectKeysSize(given) > 1
        THEN CHOOSE result \in
                {Step(subs.qb, cond, subs.err) :
                    subs \in {appendSubConditions(subCondition, qb, method, 1)}} : TRUE
        ELSE IF ops = <<>> THEN Step(qb, cond, "Invalid query condition")
        ELSE Step(whereBasic(qb, m, mapper(key), getOperatorReplacement(op, rewritten.items[at]),
                             rewritten.items[at]),
                  IF given.kind = "regexp" THEN cond
                  ELSE [cond EXCEPT !.items[i] = rewritten],
                  "")

\* processObjectSubCondition: subCondition.forEach from the i-th on
appendSubConditions(subCondition, qb, method, i) ==
    IF i > Len(subCondition) THEN Step(qb, NoCondition, "")
    ELSE CHOOSE result \in
            {IF sub.err # "" THEN sub
             ELSE appendSubConditions(subCondition, sub.qb, method, i + 1) :
                sub \in {appendQueryCondition(subCondition[i], qb, "$and", method)}} : TRUE

\* appendQuerySubCondition, for the i-th key of cond
appendQuerySubCondition(qb, method, cond, i, operator) ==
    LET key == cond.items[i].key
        value == cond.items[i]
        m == IF operator = "$or" THEN "orWhere" ELSE method
    IN  IF isSimpleRegExp(value)
        THEN Step(whereBasic(qb, m, mapper(key), "like",
                             Scalar("", Join(getRegExpParam(value), ""))),
                  cond, "")
        ELSE IF isPlainObject(value) \/ value.kind = "regexp"
        THEN processObjectSubCondition(cond, i, qb, method, m)
        ELSE Step(whereBasic(qb, m, mapper(key),
                             IF value.kind = "null" THEN "is" ELSE "=", value),
                  cond, "")

\* appendQueryCondition (operator "" when none is passed)
appendQueryCondition(cond, qb, operator, method) ==
    appendQueryConditionKeys(cond, qb, operator, method, 1)

\* appendQueryCondition: Object.keys(cond).forEach from the i-th key on
appendQueryConditionKeys(cond, qb, operator, method, i) ==
    LET k == cond.items[i].key
        m == IF operator = "$or" THEN "orWhere" ELSE "andWhere"
        n == IF operator = "$or" THEN "orWhereNot" ELSE "whereNot"
        step ==
            IF k \in {"$and", "$or"}
            THEN IF operator # ""
                 THEN CHOOSE result \in
                        {Step(whereWrapped(qb, m, group.qb),
                              [cond EXCEPT !.items[i] = group.cond], group.err) :
                            group \in {appendGroupCondition(<<>>, k, method, cond.items[i])}} : TRUE
                 ELSE CHOOSE result \in
                        {Step(group.qb, [cond EXCEPT !.items[i] = group.cond], group.err) :
                            group \in {appendGroupCondition(qb, k, method, cond.items[i])}} : TRUE
            ELSE IF k = "$not"
            THEN CHOOSE result \in
                    {Step(whereWrapped(qb, n, inner.qb),
                          [cond EXCEPT !.items[i] = inner.cond], inner.err) :
                        inner \in {appendQueryCondition(cond.items[i], <<>>, "", "where")}} : TRUE
            ELSE appendQuerySubCondition(qb, method, cond, i, operator)
    IN  IF i > Len(cond.items) THEN Step(qb, cond, "")
        ELSE CHOOSE result \in
                {IF done.err # "" THEN done
                 ELSE appendQueryConditionKeys(done.cond, done.qb, operator, method, i + 1) :
                    done \in {step}} : TRUE

\* appendGroupCondition; group is cond[operator], the members of the group
appendGroupCondition(qb, operator, method, group) ==
    IF Len(group.items) = 1 \/ operator = "$and"
    THEN appendGroupMembers(group, qb, method, 1)
    ELSE CHOOSE result \in
            {Step(whereWrapped(qb, method, outer.qb), outer.cond, outer.err) :
                outer \in {appendOrMembers(group, <<>>, operator, 1)}} : TRUE

\* appendGroupCondition: the forEach of a flattened group, from the i-th member on
appendGroupMembers(group, qb, method, i) ==
    IF i > Len(group.items) THEN Step(qb, group, "")
    ELSE CHOOSE result \in
            {IF sub.err # "" THEN Step(sub.qb, [group EXCEPT !.items[i] = sub.cond], sub.err)
             ELSE appendGroupMembers([group EXCEPT !.items[i] = sub.cond], sub.qb, method, i + 1) :
                sub \in {appendQueryCondition(group.items[i], qb, "", method)}} : TRUE

RECURSIVE appendOrMembersNestingOperators(_, _, _, _)
\* appendOrMembers, but an object with a single operator does not count as simple
appendOrMembersNestingOperators(group, outer, operator, i) ==
    LET sub == group.items[i]
        keys == Keys(sub)
        val == IF keys = <<>> THEN NoValue ELSE sub.items[1]
        simple ==
            \/ ~isPlainObject(val)
            \/ \A j \in DOMAIN val.items : ~isOperator(val.items[j].key)
        member ==
            IF Len(keys) = 1 /\ simple
            THEN appendQueryCondition(sub, outer, operator, "where")
            ELSE CHOOSE result \in
                    {Step(whereWrapped(outer, "orWhere", inner.qb), inner.cond, inner.err) :
                        inner \in {appendQueryCondition(sub, <<>>, "", "where")}} : TRUE
    IN  IF i > Len(group.items) THEN Step(outer, group, "")
        ELSE CHOOSE result \in
                {IF done.err # "" THEN Step(done.qb, [group EXCEPT !.items[i] = done.cond], done.err)
                 ELSE appendOrMembersNestingOperators([group EXCEPT !.items[i] = done.cond],
                                                      done.qb, operator, i + 1) :
                    done \in {member}} : TRUE

\* appendGroupCondition: the forEach inside the parentheses of a group, from
\* the i-th member on
appendOrMembers(group, outer, operator, i) ==
    LET sub == group.items[i]
        keys == Keys(sub)
        val == IF keys = <<>> THEN NoValue ELSE sub.items[1]
        simple ==
            \/ ~isPlainObject(val)
            \/ getObjectKeysSize(val) = 1
            \/ \A j \in DOMAIN val.items : ~isOperator(val.items[j].key)
        member ==
            IF Len(keys) = 1 /\ simple
            THEN appendQueryCondition(sub, outer, operator, "where")
            ELSE CHOOSE result \in
                    {Step(whereWrapped(outer, "orWhere", inner.qb), inner.cond, inner.err) :
                        inner \in {appendQueryCondition(sub, <<>>, "", "where")}} : TRUE
    IN  IF i > Len(group.items) THEN Step(outer, group, "")
        ELSE CHOOSE result \in
                {IF done.err # "" THEN Step(done.qb, [group EXCEPT !.items[i] = done.cond], done.err)
                 ELSE appendOrMembers([group EXCEPT !.items[i] = done.cond], done.qb, operator, i + 1) :
                    done \in {member}} : TRUE

----------------------------------------------------------------------------
(* QueryBuilderHelper: the extra condition of a join *)

RECURSIVE appendJoinClause(_, _, _)
RECURSIVE appendJoinClauseKeys(_, _, _, _)
RECURSIVE appendJoinMembers(_, _, _, _)
RECURSIVE appendJoinSubClauses(_, _, _)

\* processObjectSubClause, for the i-th key of cond
processObjectSubClause(cond, i, clause, m) ==
    LET key == cond.items[i].key
        value == cond.items[i]
        subCondition ==
            [j \in DOMAIN value.items |->
                Node("object", "", "", <<Node("object", key, "", <<value.items[j]>>)>>)]
        ops == SelectSeq(QueryOperatorKeys, LAMBDA op : HasKey(value, op))
    IN  IF getObjectKeysSize(value) > 1
        THEN whereWrapped(clause, m, appendJoinSubClauses(subCondition, <<>>, 1))
        ELSE IF ops = <<>> THEN clause
        ELSE whereBasic(clause, m, mapper(key), QueryOperator[ops[1]],
                        value.items[IndexOfKey(value, ops[1])])

\* processObjectSubClause: subCondition.map from the i-th on
appendJoinSubClauses(subCondition, inner, i) ==
    IF i > Len(subCondition) THEN inner
    ELSE CHOOSE result \in
            {appendJoinSubClauses(subCondition, next, i + 1) :
                next \in {appendJoinClause(inner, subCondition[i], "$and")}} : TRUE

\* appendJoinSubClause, for the i-th key of cond
appendJoinSubClause(clause, cond, i, operator) ==
    LET key == cond.items[i].key
        value == cond.items[i]
        m == IF operator = "$or" THEN "orOn" ELSE "andOn"
    IN  IF value.kind = "regexp"
        THEN whereBasic(clause, m, mapper(key), "like",
                        Scalar("", Join(getRegExpParam(value), "")))
        ELSE IF isPlainObject(value) THEN processObjectSubClause(cond, i, clause, m)
        ELSE whereBasic(clause, m, mapper(key),
                        IF value.kind = "null" THEN "is" ELSE "=", value)

\* appendJoinClause (operator "" when none is passed)
appendJoinClause(clause, cond, operator) == appendJoinClauseKeys(clause, cond, operator, 1)

\* appendJoinClause: Object.keys(cond).forEach from the i-th key on
appendJoinClauseKeys(clause, cond, operator, i) ==
    LET k == cond.items[i].key
        method == IF operator = "$or" THEN "orOn" ELSE "andOn"
        step ==
            IF k \in {"$and", "$or"}
            THEN whereWrapped(clause, method, appendJoinMembers(cond.items[i], <<>>, k, 1))
            ELSE appendJoinSubClause(clause, cond, i, operator)
    IN  IF i > Len(cond.items) THEN clause
        ELSE CHOOSE result \in
                {appendJoinClauseKeys(next, cond, operator, i + 1) : next \in {step}} : TRUE

\* appendJoinClause: cond[k].forEach from the i-th member on
appendJoinMembers(group, outer, k, i) ==
    LET sub == group.items[i]
        m == IF k = "$or" THEN "orOn" ELSE "andOn"
        member ==
            IF getObjectKeysSize(sub) = 1
            THEN appendJoinClause(outer, sub, k)
            ELSE whereWrapped(outer, m, appendJoinClause(<<>>, sub, "$and"))
    IN  IF i > Len(group.items) THEN outer
        ELSE CHOOSE result \in
                {appendJoinMembers(group, next, k, i + 1) : next \in {member}} : TRUE

\* a knex builder nothing was written to
NewBuilder(call) ==
    [call |-> call, clauses |-> <<>>, joins |-> <<>>, lock |-> "", err |-> ""]

\* a JoinOptions
JoinOptions(table, joinAlias, ownerAlias, type, primaryKeys, joinColumns, cond) ==
    [table |-> table, alias |-> joinAlias, ownerAlias |-> ownerAlias, type |-> type,
     primaryKeys |-> primaryKeys, joinColumns |-> joinColumns, cond |-> cond]

RECURSIVE processJoins(_, _)
\* processJoins: one join of the builder per JoinOptions, its ON clause made
\* of the key pairs and the extra condition
processJoins(qb, joins) ==
    IF joins = <<>> THEN qb
    ELSE LET join == Head(joins)
             pairs ==
                [idx \in DOMAIN join.primaryKeys |->
                    whereBasic(<<>>, "on", join.ownerAlias \o "." \o join.primaryKeys[idx], "=",
                               Node("ref", "", join.alias \o "." \o join.joinColumns[idx], <<>>))[1]]
         IN  CHOOSE result \in
                {processJoins([qb EXCEPT !.joins = Append(@,
                        [method |-> IF join.type = "pivotJoin" THEN "leftJoin" ELSE join.type,
                         table |-> join.table \o " as " \o join.alias,
                         clauses |-> inner])], Tail(joins)) :
                    inner \in {appendJoinClause(pairs, join.cond, "")}} : TRUE

----------------------------------------------------------------------------
(* QueryBuilderHelper: locking *)

LockModes == {"NONE", "OPTIMISTIC", "PESSIMISTIC_READ", "PESSIMISTIC_WRITE"}

\* getLockSQL, but the optimistic lock of an unversioned entity is let through
getLockSQLUnchecked(qb, lockMode) ==
    IF lockMode = "PESSIMISTIC_READ" THEN [qb EXCEPT !.lock = "forShare"]
    ELSE IF lockMode = "PESSIMISTIC_WRITE" THEN [qb EXCEPT !.lock = "forUpdate"]
    ELSE qb

\* getLockSQL
getLockSQL(qb, lockMode) ==
    IF lockMode = "PESSIMISTIC_READ" THEN [qb EXCEPT !.lock = "forShare"]
    ELSE IF lockMode = "PESSIMISTIC_WRITE" THEN [qb EXCEPT !.lock = "forUpdate"]
    ELSE IF /\ lockMode = "OPTIMISTIC"
            /\ entityName \in DOMAIN metadata
            /\ metadata[entityName].versionProperty = ""
        THEN [qb EXCEPT !.err = "OptimisticLockError"]
    ELSE qb

----------------------------------------------------------------------------
(* QueryBuilderHelper: the calls of a query builder *)

\* at most this many calls of the helper are made with one condition tree
MaxCalls == 2

\* appendQueryCondition(type, condition, qb, undefined, method) on a new builder
AppendQueryCondition ==
    /\ pc \in {"query", "appendQueryCondition", "processJoins", "getLockSQL"}
    /\ Len(queries) < MaxCalls
    /\ \E method \in {"where", "having"} :
        \E step \in {appendQueryCondition(condition, <<>>, "", method)} :
            /\ queries' = Append(queries,
                    [NewBuilder(method) EXCEPT !.clauses = step.qb, !.err = step.err])
            /\ condition' = step.cond
            /\ err' = IF step.err = "" THEN "none" ELSE step.err
    /\ pc' = "appendQueryCondition"
    /\ UNCHANGED <<metadata, entities, schema, platform, ddl, diffs, args, queue, row, em>>

\* processJoins(qb, joins) on a new builder, for the join of the author's
\* books with the condition as its extra condition
ProcessJoins ==
    /\ pc \in {"query", "appendQueryCondition", "processJoins", "getLockSQL"}
    /\ Len(queries) < MaxCalls
    /\ queries' = Append(queries,
            processJoins(NewBuilder("join"),
                <<JoinOptions("book", "b1", alias, "leftJoin", <<"id">>, <<"author_id">>,
                              condition)>>))
    /\ err' = "none"
    /\ pc' = "processJoins"
    /\ UNCHANGED <<metadata, entities, schema, platform, ddl, diffs, args, queue, condition, row, em>>

\* getLockSQL(qb, lockMode) on a new builder
GetLockSQL ==
    /\ pc \in {"query", "appendQueryCondition", "processJoins", "getLockSQL"}
    /\ Len(queries) < MaxCalls
    /\ \E lockMode \in LockModes :
        \E qb \in {getLockSQL(NewBuilder(lockMode), lockMode)} :
            /\ queries' = Append(queries, qb)
            /\ err' = IF qb.err = "" THEN "none" ELSE qb.err
    /\ pc' = "getLockSQL"
    /\ UNCHANGED <<metadata, entities, schema, platform, ddl, diffs, args, queue, condition, row, em>>

\* a query builder compiling its conditions and its joins
NextQuery == AppendQueryCondition \/ ProcessJoins

\* a query builder compiling its conditions and locking the rows it selects
NextLock == AppendQueryCondition \/ GetLockSQL

----------------------------------------------------------------------------
(* Initial states: condition trees *)

\* groups are nested at most this deep
MaxDepth == 2

\* the condition {key: value, ...}
Object(entries) == Node("object", "", "", entries)

\* the value {key: value, ...} stored under a key
ObjectAt(key, entries) == Node("object", key, "", entries)

\* conditions on one or two fields, without groups
Leaves ==
    {Object(<<Scalar("name", "Jon")>>),
     Object(<<Scalar("email", "jon@snow")>>),
     Object(<<Node("null", "email", "", <<>>)>>),
     Object(<<Scalar("name", "Jon"), Scalar("email", "jon@snow")>>),
     Object(<<ObjectAt("id", <<Scalar("$gt", "1")>>)>>),
     Object(<<ObjectAt("id", <<Scalar("$gt", "1"), Scalar("$lt", "5")>>)>>),
     Object(<<ObjectAt("name", <<Scalar("foo", "1")>>)>>),
     Object(<<RegExp("name", <<"^", "a", ".", "*">>)>>),
     Object(<<RegExp("name", <<"(", "a", ")", "$">>)>>),
     Object(<<ObjectAt("id~~~name",
                <<Node("array", "$in", "", <<Scalar("", "1"), Scalar("", "Jon")>>)>>)>>)}

\* the second member of a group of two
SecondMember == Object(<<Scalar("email", "jon@snow")>>)

\* the group {operator: members}
Group(operator, members) == Object(<<Node("array", operator, "", members)>>)

RECURSIVE Conditions(_)
\* the condition trees nested at most depth deep
Conditions(depth) ==
    IF depth = 0 THEN Leaves
    ELSE LET inner == Conditions(depth - 1)
         IN  inner
                \cup {Group(operator, <<sub>>) : operator \in {"$and", "$or"}, sub \in inner}
                \cup {Group(operator, <<sub, SecondMember>>) :
                        operator \in {"$and", "$or"}, sub \in inner}
                \cup {Object(<<[sub EXCEPT !.key = "$not"]>>) : sub \in inner}

\* the metadata of the entity the helper is constructed for
AuthorMetadata(versionProperty) ==
    [Author |-> [versionProperty |-> versionProperty] @@
        Meta("Author", "author", "Author",
             <<Prop("id", SCALAR, "number", FALSE, FALSE, TRUE, <<"id">>, <<"int">>),
               ScalarProp("name", "string", "varchar(255)"),
               Prop("email", SCALAR, "string", FALSE, TRUE, FALSE,
                    <<"email_address">>, <<"varchar(255)">>)>>)]

\* the platforms the helper is injected with
QueryPlatforms ==
    {[regExpOperator |-> "regexp", requiresValuesKeyword |-> FALSE],
     [regExpOperator |-> "~", requiresValuesKeyword |-> TRUE]}

InitQuery ==
    /\ entities = <<"Author">>
    /\ metadata = AuthorMetadata("")
    /\ platform \in QueryPlatforms
    /\ schema = <<>>
    /\ ddl = <<>>
    /\ diffs = NoDiffs
    /\ err = "none"
    /\ pc = "query"
    /\ args = DefaultArgs
    /\ queue = <<>>
    /\ condition \in Conditions(MaxDepth)
    /\ queries = <<>>
    /\ row = NoRow
    /\ em = NoManagers

SpecQuery == InitQuery /\ [][NextQuery]_vars

----------------------------------------------------------------------------
(* Initial states: one regular expression *)

RECURSIVE Sources(_)
\* the character sequences of at most the given length
Sources(length) ==
    IF length = 0 THEN {<<>>}
    ELSE LET shorter == Sources(length - 1)
         IN  shorter \cup {Append(s, c) : s \in shorter, c \in RegExpAlphabet}

InitRegExp ==
    /\ entities = <<"Author">>
    /\ metadata = AuthorMetadata("")
    /\ platform = [regExpOperator |-> "regexp", requiresValuesKeyword |-> FALSE]
    /\ schema = <<>>
    /\ ddl = <<>>
    /\ diffs = NoDiffs
    /\ err = "none"
    /\ pc = "query"
    /\ args = DefaultArgs
    /\ queue = <<>>
    /\ \E source \in Sources(MaxSource) :
        /\ source # <<>>
        /\ validSource(source)
        /\ condition = Object(<<RegExp("name", source)>>)
    /\ queries = <<>>
    /\ row = NoRow
    /\ em = NoManagers

SpecRegExp == InitRegExp /\ [][NextQuery]_vars

----------------------------------------------------------------------------
(* Initial states: an entity with or without a version property *)

InitLock ==
    /\ entities = <<"Author">>
    /\ \E versionProperty \in {"", "version"} : metadata = AuthorMetadata(versionProperty)
    /\ platform \in QueryPlatforms
    /\ schema = <<>>
    /\ ddl = <<>>
    /\ diffs = NoDiffs
    /\ err = "none"
    /\ pc = "query"
    /\ args = DefaultArgs
    /\ queue = <<>>
    /\ condition \in Leaves
    /\ queries = <<>>
    /\ row = NoRow
    /\ em = NoManagers

SpecLock == InitLock /\ [][NextLock]_vars

----------------------------------------------------------------------------
(* Properties: the LIKE pattern of a regular expression *)

\* the regular expression the condition compares the name with
ConditionRegExp == condition.items[1]

RECURSIVE RewrittenBody(_)
\* a source read from left to right as a regular expression: an escaped dot
\* is a literal dot, any other escaped character stays as written, a dot with
\* the quantifier is %, any other dot is _, every other character is itself
RewrittenBody(s) ==
    IF s = <<>> THEN <<>>
    ELSE IF s[1] = "\\" /\ Len(s) >= 2
        THEN (IF s[2] = "." THEN <<".">> ELSE <<s[1], s[2]>>)
                \o RewrittenBody(SubSeq(s, 3, Len(s)))
    ELSE IF s[1] = "." /\ Len(s) >= 2 /\ s[2] = "*"
        THEN <<"%">> \o RewrittenBody(SubSeq(s, 3, Len(s)))
    ELSE IF s[1] = "." THEN <<"_">> \o RewrittenBody(Tail(s))
    ELSE <<s[1]>> \o RewrittenBody(Tail(s))

\* the pattern a source is to be rewritten to: the body without the leading ^
\* and the trailing $, with % where the source is not anchored
RewrittenPattern(source) ==
    LET startsWith == source[1] = "^"
        endsWith == source[Len(source)] = "$"
        inner == SubSeq(source, IF startsWith THEN 2 ELSE 1,
                        IF endsWith THEN Len(source) - 1 ELSE Len(source))
    IN  (IF startsWith THEN <<>> ELSE <<"%">>)
            \o RewrittenBody(inner)
            \o (IF endsWith THEN <<>> ELSE <<"%">>)

\* the LIKE clauses written for the condition on the name
LikePatterns ==
    {queries[q].clauses[1].value.atom :
        q \in {n \in DOMAIN queries : queries[n].call \in {"where", "having"}}}

\* C14: for every regular expression whose source has none of { [ ( the
\* pattern getRegExpParam returns has % for each .*, _ for each unescaped dot,
\* a literal dot for each escaped dot, no leading ^ and no trailing $, a % in
\* front exactly when the source does not start with ^ and a % at the end
\* exactly when it does not end with $
C14_RegExpToLike ==
    isSimpleRegExp(ConditionRegExp) =>
        \A pattern \in LikePatterns :
            pattern = Join(RewrittenPattern(Source(ConditionRegExp)), "")

\* the expression /a.*\.$/ compiled to LIKE '%a%.'
C14_Witness ==
    /\ Source(ConditionRegExp) = <<"a", ".", "*", "$">>
    /\ LikePatterns = {"%a%"}

----------------------------------------------------------------------------
(* Properties: regular expressions that cannot be rewritten *)

RECURSIVE NodesIn(_)
\* a node and every node below it
NodesIn(node) ==
    {node} \cup UNION {NodesIn(node.items[i]) : i \in DOMAIN node.items}

\* the regular expressions of the condition that isSimpleRegExp rejects
ComplexRegExps ==
    {node \in NodesIn(condition) : node.kind = "regexp" /\ ~isSimpleRegExp(node)}

RECURSIVE AllClauses(_)
\* the clauses of a list and of every group nested in it
AllClauses(clauses) ==
    UNION {{clauses[i]} \cup AllClauses(clauses[i].clauses) : i \in DOMAIN clauses}

\* every clause a call wrote: to the builder, or to the join it added
WrittenClauses(query) ==
    AllClauses(query.clauses) \cup
        UNION {AllClauses(query.joins[j].clauses) : j \in DOMAIN query.joins}

\* the calls that compiled the condition
Compilations == {q \in DOMAIN queries : queries[q].call \in {"where", "having", "join"}}

\* C15: a regular expression with one of { [ ( is never rewritten to LIKE:
\* compiled for WHERE or HAVING as well as for the extra condition of a join
\* it is written with the platform's regular expression operator and its
\* unmodified source as the parameter
C15_ComplexRegExpNative ==
    \A q \in Compilations : \A re \in ComplexRegExps :
        /\ \E clause \in WrittenClauses(queries[q]) :
            /\ clause.column = mapper(re.key)
            /\ clause.operator = platform.regExpOperator
            /\ clause.value.atom = Join(Source(re), "")
        /\ \A clause \in WrittenClauses(queries[q]) : clause.operator # "like"

\* /(a)$/ compiled for a WHERE clause with the operator of the platform
C15_Witness ==
    /\ condition = Object(<<RegExp("name", <<"(", "a", ")", "$">>)>>)
    /\ platform.regExpOperator = "~"
    /\ \E q \in DOMAIN queries :
        /\ queries[q].call = "where"
        /\ compileClauses(queries[q].clauses, "where") = "e0.name ~ ?"
        /\ bindings(queries[q].clauses, "where") = <<"(a)$">>

----------------------------------------------------------------------------
(* Properties: groups of a condition *)

\* a condition that is one group with one member: { $and: [m] } or { $or: [m] }
IsSingleMemberGroup(node) ==
    /\ node.kind = "object"
    /\ Len(node.items) = 1
    /\ node.items[1].key \in {"$and", "$or"}
    /\ Len(node.items[1].items) = 1

RECURSIVE WithoutSingleMemberGroups(_)
\* the condition with every group of one member replaced by that member
WithoutSingleMemberGroups(node) ==
    IF IsSingleMemberGroup(node)
    THEN [WithoutSingleMemberGroups(node.items[1].items[1]) EXCEPT !.key = node.key]
    ELSE [node EXCEPT !.items = [i \in DOMAIN node.items |->
                                    WithoutSingleMemberGroups(node.items[i])]]

\* the calls that compiled the condition for a WHERE or a HAVING clause
ConditionCalls == {q \in DOMAIN queries : queries[q].call \in {"where", "having"}}

\* the fragment and the parameters a call wrote
Fragment(query) ==
    <<compileClauses(query.clauses, query.call), bindings(query.clauses, query.call),
      query.err>>

\* the fragment and the parameters a condition compiles to
FragmentOf(cond, method) ==
    LET step == appendQueryCondition(cond, <<>>, "", method)
    IN  <<compileClauses(step.qb, method), bindings(step.qb, method), step.err>>

\* C16: a group with exactly one member compiles to the fragment of that member
\* alone, without parentheses of its own, at every nesting depth, also when
\* it is a member of an enclosing $or group of several members
C16_SingleMemberFlattened ==
    \A q \in ConditionCalls :
        Fragment(queries[q]) =
            FragmentOf(WithoutSingleMemberGroups(condition), queries[q].call)

\* { $and: [{ $or: [{ name: 'Jon' }] }] } compiled like { name: 'Jon' }
C16_Witness ==
    /\ condition = Group("$and", <<Group("$or", <<Object(<<Scalar("name", "Jon")>>)>>)>>)
    /\ \E q \in ConditionCalls :
        Fragment(queries[q]) = <<"e0.name = ?", <<"Jon">>, "">>

\* the condition is one $or group of several members
IsOrGroup ==
    /\ Len(condition.items) = 1
    /\ condition.items[1].key = "$or"
    /\ Len(condition.items[1].items) > 1

\* the members of the $or group the condition is
OrMembers == condition.items[1].items

\* a member that is one simple equality: one field compared with a value
IsSimpleEquality(member) ==
    Len(member.items) = 1 /\ member.items[1].kind \in {"scalar", "null"}

\* a member that constrains fields (not a nested group, not a negation)
IsFieldMember(member) ==
    \A i \in DOMAIN member.items : member.items[i].key \notin {"$and", "$or", "$not"}

\* a member on one field whose value is not an object or is an object of one key
IsInlineMember(member) ==
    /\ Len(member.items) = 1
    /\ member.items[1].kind = "object" => Len(member.items[1].items) = 1

\* the calls that compiled the condition for WHERE or HAVING and returned
CompiledCalls == {q \in ConditionCalls : queries[q].err = ""}

\* C17 as stated: a $or group of several members is written as an OR chain
\* without any parentheses exactly when every member is one simple equality;
\* as soon as one member uses an operator object parentheses are written
C17_OrChainUnparenthesized ==
    IsOrGroup =>
        \A q \in CompiledCalls :
            (\A clause \in AllClauses(queries[q].clauses) : clause.type # "wrapped")
                <=> \A i \in DOMAIN OrMembers : IsSimpleEquality(OrMembers[i])

\* C17, amended: a $or group of several members is always written inside one
\* pair of parentheses, one clause per member joined with or; a member on
\* fields is written without parentheses of its own exactly when it has one
\* key whose value is not an object or is an object with a single key
C17_OrGroupParenthesizedOnce ==
    IsOrGroup =>
        \A q \in CompiledCalls :
            /\ Len(queries[q].clauses) = 1
            /\ queries[q].clauses[1].type = "wrapped"
            /\ ~queries[q].clauses[1].not
            /\ Len(queries[q].clauses[1].clauses) = Len(OrMembers)
            /\ \A i \in DOMAIN OrMembers :
                LET clause == queries[q].clauses[1].clauses[i]
                IN  /\ clause.bool = "or"
                    /\ IsFieldMember(OrMembers[i]) =>
                        (clause.type = "basic" <=> IsInlineMember(OrMembers[i]))

\* { $or: [{ id: { $gt: 1 } }, { email: 'jon@snow' }] } compiled to one group
\* with the operator inline
C17_Witness ==
    /\ condition = Group("$or", <<Object(<<ObjectAt("id", <<Scalar("$gt", "1")>>)>>),
                                  SecondMember>>)
    /\ \E q \in CompiledCalls :
        /\ queries[q].call = "where"
        /\ Fragment(queries[q]) =
            <<"(e0.id > ? or e0.email_address = ?)", <<"1", "jon@snow">>, "">>

----------------------------------------------------------------------------
(* Properties: values without an operator *)

\* the values of fields that are objects with none of the operator keys
OperatorlessObjects ==
    {node \in NodesIn(condition) :
        /\ node.kind = "object"
        /\ node.key \notin {"", "$not"}
        /\ \A i \in DOMAIN node.items : node.items[i].key \notin SeqToSet(QueryOperatorKeys)}

\* C18: a field value that is an object with none of the known operator keys
\* ends in a compilation error instead of SQL, compiled for WHERE or HAVING as
\* well as for the extra condition of a join, and the error leaves the
\* metadata as it was
C18_OperatorlessObjectFails ==
    OperatorlessObjects # {} =>
        /\ \A q \in Compilations : queries[q].err = "Invalid query condition"
        /\ metadata = AuthorMetadata("")

\* { name: { foo: 1 } } compiled for a WHERE clause: the error and no clause
C18_Witness ==
    /\ condition = Object(<<ObjectAt("name", <<Scalar("foo", "1")>>)>>)
    /\ \E q \in ConditionCalls :
        /\ queries[q].err = "Invalid query condition"
        /\ queries[q].clauses = <<>>
    /\ metadata = AuthorMetadata("")

----------------------------------------------------------------------------
(* Properties: locking *)

\* the calls of getLockSQL with the given lock mode
LockCalls(lockMode) == {q \in DOMAIN queries : queries[q].call = lockMode}

\* C19: an optimistic lock requested for an entity without a version property
\* raises the optimistic lock error at once and adds nothing to the builder;
\* a pessimistic read or write lock raises nothing and applies FOR SHARE or
\* FOR UPDATE
C19_LockModes ==
    /\ metadata[entityName].versionProperty = "" =>
        \A q \in LockCalls("OPTIMISTIC") :
            queries[q] = [NewBuilder("OPTIMISTIC") EXCEPT !.err = "OptimisticLockError"]
    /\ \A q \in LockCalls("PESSIMISTIC_READ") :
        queries[q] = [NewBuilder("PESSIMISTIC_READ") EXCEPT !.lock = "forShare"]
    /\ \A q \in LockCalls("PESSIMISTIC_WRITE") :
        queries[q] = [NewBuilder("PESSIMISTIC_WRITE") EXCEPT !.lock = "forUpdate"]

\* the three locks requested for an unversioned entity
C19_Witness ==
    /\ metadata[entityName].versionProperty = ""
    /\ pc = "getLockSQL"
    /\ err = "OptimisticLockError"
    /\ LockCalls("OPTIMISTIC") # {}
    /\ \E q \in LockCalls("PESSIMISTIC_WRITE") : queries[q].lock = "forUpdate"

----------------------------------------------------------------------------
(* Properties: compiling a condition twice *)

\* the calls that compiled the condition agree: those for the same clause
\* wrote the same fragment with the same parameters
SameFragments ==
    \A q \in ConditionCalls, r \in ConditionCalls :
        queries[q].call = queries[r].call => Fragment(queries[q]) = Fragment(queries[r])

\* C20: compiling a condition is a pure function of the metadata and the
\* condition tree: appendQueryCondition leaves the tree it is given and the
\* metadata unchanged, so compiling the same tree again yields the same
\* fragment and the same parameters
C20_CompilationPure ==
    [][/\ condition' = condition
       /\ metadata' = metadata
       /\ SameFragments']_vars

\* { $or: [{ id: { $gt: 1 } }, { email: 'jon@snow' }] } compiled twice for a
\* WHERE clause, with the same fragment and the tree as it was
C20_Witness ==
    /\ condition = Group("$or", <<Object(<<ObjectAt("id", <<Scalar("$gt", "1")>>)>>),
                                  SecondMember>>)
    /\ Len(queries) = 2
    /\ queries[1].call = "where"
    /\ queries[2] = queries[1]
    /\ Fragment(queries[2])[1] = "(e0.id > ? or e0.email_address = ?)"

----------------------------------------------------------------------------
(* Properties: the column of an owning ManyToOne or OneToOne property *)

\* processData(data): the columns the value of a property is written to, a
\* value that is an array (a composite key) or a single value
processData(prop, isArray) ==
    IF prop.joinColumns # <<>> /\ isArray THEN prop.joinColumns
    ELSE IF prop.fieldNames # <<>> THEN <<prop.fieldNames[1]>>
    ELSE <<prop.name>>

\* joinOneToReference(prop, ownerAlias, alias, type, cond)
joinOneToReference(md, prop, ownerAlias, joinAlias, type, cond) ==
    LET meta == md[prop.type]
        prop2 == PropertyOf(meta, IF prop.mappedBy # "" THEN prop.mappedBy ELSE prop.inversedBy)
    IN  JoinOptions(meta.collection, joinAlias, ownerAlias, type,
                    IF prop.owner THEN prop.joinColumns ELSE prop2.referencedColumnNames,
                    IF prop.owner THEN prop.referencedColumnNames ELSE prop2.joinColumns,
                    cond)

\* joinManyToOneReference(prop, ownerAlias, alias, type, cond)
joinManyToOneReference(md, prop, ownerAlias, joinAlias, type, cond) ==
    JoinOptions(md[prop.type].collection, joinAlias, ownerAlias, type,
                prop.fieldNames, prop.referencedColumnNames, cond)

\* the owning ManyToOne and OneToOne properties of the declared entities
OwningReferences ==
    {<<e, k>> \in DeclaredEntities \X (1..8) :
        /\ k \in DOMAIN metadata[e].props
        /\ metadata[e].props[k].reference \in {MANY_TO_ONE, ONE_TO_ONE}
        /\ metadata[e].props[k].owner}

\* the columns the schema generator creates for a property
CreatedColumns(meta, prop) ==
    [i \in DOMAIN createTableColumn(1, metadata, meta, prop, NoAlter) |->
        createTableColumn(1, metadata, meta, prop, NoAlter)[i].columns[1]]

----------------------------------------------------------------------------
(* Optimistic locking: the version property of an entity *)

\* bound: the update statements sent for the stored row
MaxUpdates == 3

\* the EntityManagers that work with the stored row
Managers == {"em1", "em2"}

\* type.toLowerCase(), for the types of a version property
toLowerCase(type) == IF type = "Date" THEN "date" ELSE type

\* platform.getCurrentTimestampSQL(length)
getCurrentTimestampSQL(length) == "current_timestamp(" \o length \o ")"

\* getDefaultVersionValue(prop)
getDefaultVersionValue(prop) ==
    IF prop.defaultRaw # NoDefault THEN prop.defaultRaw
    ELSE IF toLowerCase(prop.type) = "date"
    THEN getCurrentTimestampSQL(IF prop.length = "" THEN "3" ELSE prop.length)
    ELSE "1"

\* initVersionProperty(meta, prop), prop being the k-th property of meta
initVersionProperty(meta, k) ==
    IF ~meta.props[k].version THEN meta
    ELSE [meta EXCEPT !.versionProperty = meta.props[k].name,
                      !.props[k].defaultRaw = getDefaultVersionValue(meta.props[k]),
                      !.props[k].length = IF @ = "" /\ meta.props[k].defaultRaw = NoDefault
                                               /\ toLowerCase(meta.props[k].type) = "date"
                                          THEN "3" ELSE @]

RECURSIVE initVersionProperties(_, _)
\* Object.values(meta.properties).forEach(prop => this.initVersionProperty(meta, prop))
initVersionProperties(meta, k) ==
    IF k > Len(meta.props) THEN meta
    ELSE initVersionProperties(initVersionProperty(meta, k), k + 1)

\* a value of the data of a statement: a literal, or raw SQL
Literal(value) == [raw |-> "", value |-> value]
Raw(sql) == [raw |-> sql, value |-> 0]

\* data[key] = value
SetKey(data, key, value) ==
    IF \E i \in DOMAIN data : data[i].key = key
    THEN [i \in DOMAIN data |-> IF data[i].key = key THEN [key |-> key, value |-> value]
                                ELSE data[i]]
    ELSE Append(data, [key |-> key, value |-> value])

\* knex: a new builder with qb.update(data).where(cond)
UpdateBuilder(data, cond) ==
    [call |-> "update", update |-> data, where |-> cond, affectedRows |-> 0]

\* an updateVersionProperty that leaves the version to the data
updateVersionPropertySkipped(qb, data) == qb

\* updateVersionProperty(qb, data)
updateVersionProperty(qb, data) ==
    IF \/ entityName \notin DOMAIN metadata
       \/ metadata[entityName].versionProperty = ""
       \/ \E i \in DOMAIN data : data[i].key = metadata[entityName].versionProperty
    THEN qb
    ELSE LET versionProperty ==
                PropertyOf(metadata[entityName], metadata[entityName].versionProperty)
             sql == IF toLowerCase(versionProperty.type) = "date"
                    THEN getCurrentTimestampSQL(versionProperty.length)
                    ELSE versionProperty.fieldNames[1] \o " + 1"
         IN  [qb EXCEPT !.update = SetKey(@, versionProperty.fieldNames[1], Raw(sql))]

\* the database: the value of a column default that is a number
DefaultOf(defaultRaw) == CHOOSE n \in 0..9 : ToString(n) = defaultRaw

\* the database: a value of an UPDATE evaluated on the stored row
ValueOn(stored, value) ==
    IF value.raw = "" THEN value.value
    ELSE LET column == CHOOSE c \in DOMAIN stored : value.raw = c \o " + 1"
         IN  stored[column] + 1

\* the database: UPDATE ... SET ... WHERE ... run on the stored row; the row
\* after it and the number of rows it changed
RunUpdate(stored, qb) ==
    IF \A i \in DOMAIN qb.where : stored[qb.where[i].key] = qb.where[i].value
    THEN [row |-> [c \in DOMAIN stored |->
                    IF \E i \in DOMAIN qb.update : qb.update[i].key = c
                    THEN ValueOn(stored, qb.update[CHOOSE i \in DOMAIN qb.update :
                                                        qb.update[i].key = c].value)
                    ELSE stored[c]],
          affectedRows |-> 1]
    ELSE [row |-> stored, affectedRows |-> 0]

\* discover(), line 42: the version properties of the entity
InitVersionProperty ==
    /\ pc = "initFieldName"
    /\ metadata' = [metadata EXCEPT ![entityName] = initVersionProperties(@, 1)]
    /\ pc' = "initVersionProperty"
    /\ UNCHANGED <<entities, schema, platform, ddl, diffs, err, args, queue, condition,
                   queries, row, em>>

\* em.persistAndFlush(entity) of a new entity: the row is inserted without a
\* version, which the database fills with the default of the column, and the
\* EntityManager reads the version back
Insert ==
    /\ pc = "initVersionProperty"
    /\ \E stored \in
            {IF metadata[entityName].versionProperty = ""
             THEN [id |-> 1, name |-> "test"]
             ELSE [id |-> 1, name |-> "test",
                   version |-> DefaultOf(PropertyOf(metadata[entityName],
                                    metadata[entityName].versionProperty).defaultRaw)]} :
        /\ row' = stored
        /\ em' = [m \in Managers |->
                    [managed |-> m = "em1",
                     version |-> IF m = "em1" /\ "version" \in DOMAIN stored
                                 THEN stored.version ELSE 0]]
    /\ pc' = "insert"
    /\ UNCHANGED <<metadata, entities, schema, platform, ddl, diffs, err, args, queue,
                   condition, queries>>

\* em.findOne(entityName, id) in an EntityManager that was cleared
FindOne ==
    /\ pc \in {"insert", "findOne", "nativeUpdate", "flush"}
    /\ \E m \in Managers :
        /\ em[m] # [managed |-> TRUE,
                    version |-> IF "version" \in DOMAIN row THEN row.version ELSE 0]
        /\ em' = [em EXCEPT ![m] = [managed |-> TRUE,
                    version |-> IF "version" \in DOMAIN row THEN row.version ELSE 0]]
    /\ pc' = "findOne"
    /\ UNCHANGED <<metadata, entities, schema, platform, ddl, diffs, err, args, queue,
                   condition, queries, row>>

\* the data an update is called with: a new name, with or without a version
UpdateData ==
    {<<[key |-> "name", value |-> Literal("Changed!")]>>}
    \cup {<<[key |-> "name", value |-> Literal("Changed!")],
            [key |-> "version", value |-> Literal(v)]>> : v \in {1}}

\* em.nativeUpdate(entityName, { id }, data)
NativeUpdate ==
    /\ pc \in {"insert", "findOne", "nativeUpdate", "flush"}
    /\ Len(queries) < MaxUpdates
    /\ \E data \in UpdateData :
        /\ \A i \in DOMAIN data : data[i].key \in DOMAIN row
        /\ \E qb \in {updateVersionProperty(
                        UpdateBuilder(data, <<[key |-> "id", value |-> 1]>>), data)} :
            /\ row' = RunUpdate(row, qb).row
            /\ queries' = Append(queries,
                            [qb EXCEPT !.affectedRows = RunUpdate(row, qb).affectedRows])
    /\ err' = "none"
    /\ pc' = "nativeUpdate"
    /\ UNCHANGED <<metadata, entities, schema, platform, ddl, diffs, args, queue, condition,
                   em>>

\* the update an EntityManager sends when it flushes a changed name of the
\* entity it holds: guarded by the version it holds
FlushUpdate(m) ==
    LET data == <<[key |-> "name", value |-> Literal("WHATT???")]>>
    IN  updateVersionProperty(
            UpdateBuilder(data,
                <<[key |-> "id", value |-> 1]>>
                \o (IF metadata[entityName].versionProperty = "" THEN <<>>
                    ELSE <<[key |-> "version", value |-> em[m].version]>>)),
            data)

\* em.flush() of an EntityManager that holds the entity and changed its name
Flush ==
    /\ pc \in {"insert", "findOne", "nativeUpdate", "flush"}
    /\ Len(queries) < MaxUpdates
    /\ \E m \in Managers :
        /\ em[m].managed
        /\ \E res \in {RunUpdate(row, FlushUpdate(m))} :
            /\ row' = res.row
            /\ queries' = Append(queries,
                            [FlushUpdate(m) EXCEPT !.affectedRows = res.affectedRows])
            /\ err' = IF res.affectedRows = 0 THEN "OptimisticLockError" ELSE "none"
            /\ em' = IF res.affectedRows = 0 \/ "version" \notin DOMAIN res.row THEN em
                     ELSE [em EXCEPT ![m].version = res.row.version]
    /\ pc' = "flush"
    /\ UNCHANGED <<metadata, entities, schema, platform, ddl, diffs, args, queue, condition>>

NextVersion == InitVersionProperty \/ Insert \/ FindOne \/ NativeUpdate \/ Flush

\* the default a version property declares when it declares one
DeclaredVersionDefault == "0"

\* a property of the versioned entity as declared
VersionedProp(name, type, primary, version, defaultRaw) ==
    [version |-> version, length |-> "",
     options |-> IF defaultRaw = NoDefault THEN {} ELSE {"defaultRaw"}] @@
    [Prop(name, SCALAR, type, FALSE, FALSE, primary, <<name>>, <<"int">>) EXCEPT
        !.defaultRaw = defaultRaw]

\* the entity with and without a numeric version property, which may declare
\* a default of its own
VersionedMetadata(versioned, defaultRaw) ==
    [Author |-> [versionProperty |-> ""] @@
        Meta("Author", "author", "Author",
             <<VersionedProp("id", "number", TRUE, FALSE, NoDefault),
               VersionedProp("name", "string", FALSE, FALSE, NoDefault)>>
             \o (IF versioned
                 THEN <<VersionedProp("version", "number", FALSE, TRUE, defaultRaw)>>
                 ELSE <<>>))]

InitVersion ==
    /\ entities = <<"Author">>
    /\ \E versioned \in BOOLEAN, defaultRaw \in {NoDefault, DeclaredVersionDefault} :
        /\ ~versioned => defaultRaw = NoDefault
        /\ metadata = VersionedMetadata(versioned, defaultRaw)
    /\ platform = FullPlatform
    /\ schema = <<>>
    /\ ddl = <<>>
    /\ diffs = NoDiffs
    /\ err = "none"
    /\ pc = "initFieldName"
    /\ args = DefaultArgs
    /\ queue = <<>>
    /\ condition = NoCondition
    /\ queries = <<>>
    /\ row = NoRow
    /\ em = NoManagers

SpecVersion == InitVersion /\ [][NextVersion]_vars

----------------------------------------------------------------------------
(* Properties: the version of a stored row *)

\* the entity has a version property and its row is stored
VersionedRow == row # NoRow /\ metadata[entityName].versionProperty # ""

\* the updates that changed the row
AffectingUpdates == {q \in DOMAIN queries : queries[q].affectedRows = 1}

\* no update that changed the row had the version in its data
VersionLeftToUpdates ==
    \A q \in AffectingUpdates : \A i \in DOMAIN queries[q].update :
        queries[q].update[i].key = "version" => queries[q].update[i].value.raw # ""

\* an EntityManager that holds an older version is detected: the update it
\* flushes changes no row
OlderVersionDetected ==
    \A m \in Managers :
        em[m].managed /\ em[m].version < row.version =>
            RunUpdate(row, FlushUpdate(m)).affectedRows = 0

InsertedVersion ==
    IF "defaultRaw" \in PropertyOf(metadata[entityName], "version").options
    THEN DefaultOf(DeclaredVersionDefault) ELSE 1

----------------------------------------------------------------------------
(* Properties: computing the table difference again *)

\* the statements a pass of the last call wrote for the table of an entity
PassStatements(pass, meta) ==
    SelectSeq(ddl, LAMBDA st : st.pass = pass /\ st.table = meta.collection)

\* the three passes of getUpdateSchemaSQL computed the same difference: what
\* the foreign-key pass and the index pass wrote is what the difference of the
\* column pass asks for, and computing the difference once more returns it
PassesAgree ==
    pc = "update" /\ err = "none" =>
        \A e \in DOMAIN diffs :
            \A again \in {computeTableDifference(metadata[e],
                                getTable(schema, metadata[e].collection), args.safe)} :
                /\ again = diffs[e]
                /\ PassStatements("fks", metadata[e])
                    = IF Len(again.create) = 0 THEN <<>>
                      ELSE createForeignKeys("fks", metadata, metadata[e], FALSE, again.create)
                /\ PassStatements("indexes", metadata[e])
                    = [i \in DOMAIN again.dropIndex |->
                        [Stmt("indexes",
                              IF again.dropIndex[i].unique THEN "dropUnique" ELSE "dropIndex",
                              metadata[e].collection, again.dropIndex[i].columnNames) EXCEPT
                            !.name = again.dropIndex[i].keyName]]
                      \o [i \in DOMAIN again.addIndex |->
                        [Stmt("indexes", IF again.addIndex[i].unique THEN "unique" ELSE "index",
                              metadata[e].collection, again.addIndex[i].columnNames) EXCEPT
                            !.name = again.addIndex[i].keyName]]

----------------------------------------------------------------------------
(* QueryBuilderHelper: joining through a ManyToMany property *)

\* the paths a join is asked for: none, the path of the property, the path of
\* its pivot table
JoinPaths == {"", "tags", "tags[pivot]"}

\* path.endsWith('[pivot]')
endsWithPivot(path) == \E p \in JoinPaths : path = p \o "[pivot]"

\* a joinManyToManyReference that looks up the pivot property of the owning
\* side from both sides
joinManyToManyReferenceOwnerSide(md, prop, ownerAlias, joinAlias, pivotAlias, type, cond, path) ==
    LET first == [prop |-> prop.name, inverseAlias |-> joinAlias,
                  inverseJoinColumns |-> prop.inverseJoinColumns,
                  path |-> IF path = "" \/ endsWithPivot(path) THEN path
                           ELSE path \o "[pivot]"]
                 @@ JoinOptions(prop.pivotTable, pivotAlias, ownerAlias, type,
                                prop.referencedColumnNames, prop.joinColumns, cond)
        ret == SetKey(<<>>, ownerAlias \o "." \o prop.name, first)
        name2 == prop.type \o "_owner"
    IN  IF type = "pivotJoin" THEN [joins |-> ret, err |-> "none"]
        ELSE IF prop.pivotTable \notin DOMAIN md \/ ~HasProperty(md[prop.pivotTable], name2)
        THEN [joins |-> ret, err |-> "TypeError"]
        ELSE LET prop2 == PropertyOf(md[prop.pivotTable], name2)
                 second == [prop |-> prop2.name, inverseAlias |-> "",
                            inverseJoinColumns |-> <<>>, path |-> path]
                           @@ joinManyToOneReference(md, prop2, pivotAlias, joinAlias, type,
                                                     NoCondition)
             IN  [joins |-> SetKey(ret, pivotAlias \o "." \o prop2.name, second),
                  err |-> "none"]

\* joinManyToManyReference(prop, ownerAlias, alias, pivotAlias, type, cond, path):
\* the dictionary of joins it returns, in the order of its keys; looking up a
\* property the pivot entity does not have raises a TypeError
joinManyToManyReference(md, prop, ownerAlias, joinAlias, pivotAlias, type, cond, path) ==
    LET first == [prop |-> prop.name, inverseAlias |-> joinAlias,
                  inverseJoinColumns |-> prop.inverseJoinColumns,
                  path |-> IF path = "" \/ endsWithPivot(path) THEN path
                           ELSE path \o "[pivot]"]
                 @@ JoinOptions(prop.pivotTable, pivotAlias, ownerAlias, type,
                                prop.referencedColumnNames, prop.joinColumns, cond)
        ret == SetKey(<<>>, ownerAlias \o "." \o prop.name, first)
        name2 == prop.type \o (IF prop.owner THEN "_inverse" ELSE "_owner")
    IN  IF type = "pivotJoin" THEN [joins |-> ret, err |-> "none"]
        ELSE IF prop.pivotTable \notin DOMAIN md \/ ~HasProperty(md[prop.pivotTable], name2)
        THEN [joins |-> ret, err |-> "TypeError"]
        ELSE LET prop2 == PropertyOf(md[prop.pivotTable], name2)
                 second == [prop |-> prop2.name, inverseAlias |-> "",
                            inverseJoinColumns |-> <<>>, path |-> path]
                           @@ joinManyToOneReference(md, prop2, pivotAlias, joinAlias, type,
                                                     NoCondition)
             IN  [joins |-> SetKey(ret, pivotAlias \o "." \o prop2.name, second),
                  err |-> "none"]

\* a join through a ManyToMany property of a resolved entity, from the side
\* that owns the relation or from the mapped side
JoinManyToMany ==
    /\ pc = "resolved"
    /\ \E e \in DOMAIN metadata, type \in {"leftJoin", "innerJoin", "pivotJoin"},
          path \in JoinPaths :
        \E k \in DOMAIN metadata[e].props :
            /\ metadata[e].props[k].reference = MANY_TO_MANY
            /\ \E res \in {joinManyToManyReference(metadata, metadata[e].props[k],
                                "e0", "e1", "e2", type, NoCondition, path)} :
                /\ queries' = <<[call |-> "joinManyToManyReference", entity |-> e,
                                 prop |-> metadata[e].props[k].name, type |-> type,
                                 joins |-> res.joins]>>
                /\ err' = res.err
    /\ pc' = "joined"
    /\ UNCHANGED <<metadata, entities, schema, platform, ddl, diffs, args, queue, condition,
                   row, em>>

NextResolve == InitFieldNames \/ AutoWire \/ ProcessEntity \/ JoinManyToMany

SpecResolve == InitResolve /\ [][NextResolve]_vars

----------------------------------------------------------------------------
(* Properties: the joins of a ManyToMany property *)

\* the ManyToMany property the last call joined through
JoinedProperty == PropertyOf(metadata[queries[1].entity], queries[1].prop)

\* the hop from the owner alias to the pivot table
IsPivotHop(entry) ==
    /\ entry.key = "e0." \o JoinedProperty.name
    /\ entry.value.ownerAlias = "e0"
    /\ entry.value.alias = "e2"
    /\ entry.value.table = JoinedProperty.pivotTable
    /\ metadata[JoinedProperty.pivotTable].pivotTable

\* the hop from the pivot alias to the target table, through the ManyToOne
\* property of the pivot entity that references the target
IsTargetHop(entry) ==
    /\ entry.value.ownerAlias = "e2"
    /\ entry.value.alias = "e1"
    /\ entry.value.table = metadata[JoinedProperty.type].collection
    /\ HasProperty(metadata[JoinedProperty.pivotTable], entry.value.prop)
    /\ entry.key = "e2." \o entry.value.prop
    /\ PropertyOf(metadata[JoinedProperty.pivotTable], entry.value.prop).reference = MANY_TO_ONE
    /\ PropertyOf(metadata[JoinedProperty.pivotTable], entry.value.prop).type = JoinedProperty.type
    /\ entry.value.primaryKeys
            = PropertyOf(metadata[JoinedProperty.pivotTable], entry.value.prop).fieldNames

\* C24: a join through a ManyToMany property, from its owning or its mapped
\* side, yields the hop to the pivot table and then the hop from the pivot
\* alias to the target table through the pivot entity's ManyToOne property for
\* the target, and only the hop to the pivot table for a pivotJoin; the
\* property of the pivot entity the second hop looks up always exists
C24_TwoChainedJoins ==
    pc = "joined" =>
        /\ err = "none"
        /\ IsPivotHop(queries[1].joins[1])
        /\ IF queries[1].type = "pivotJoin" THEN Len(queries[1].joins) = 1
           ELSE Len(queries[1].joins) = 2 /\ IsTargetHop(queries[1].joins[2])

\* Tag.people, the mapped side of Person.tags, joined to person through the
\* pivot entity's property Person_owner
C24_Witness ==
    /\ pc = "joined"
    /\ queries[1].entity = "Tag" /\ queries[1].prop = "people"
    /\ ~JoinedProperty.owner
    /\ queries[1].type = "leftJoin"
    /\ Len(queries[1].joins) = 2
    /\ queries[1].joins[2].key = "e2.Person_owner"
    /\ queries[1].joins[2].value.table = "person"

----------------------------------------------------------------------------
(* Properties: the join column of a OneToMany property *)

\* the OneToMany properties of the declared entities that give no join column
DerivingCollections ==
    {<<e, k>> \in DeclaredEntities \X (1..8) :
        /\ k \in DOMAIN metadata[e].props
        /\ metadata[e].props[k].reference = ONE_TO_MANY
        /\ "joinColumns" \notin metadata[e].props[k].options}

\* C25: after resolution every OneToMany property that gives no join column
\* has exactly one join column, named after the owning property on the other
\* side (the ManyToOne property it is mapped by) and not after the OneToMany
\* property itself
C25_JoinColumnFromOwningProperty ==
    pc = "resolved" =>
        \A r \in DerivingCollections :
            LET prop == metadata[r[1]].props[r[2]]
            IN  /\ Len(prop.joinColumns) = 1
                /\ prop.joinColumns[1] = joinColumnName(prop.mappedBy)
                /\ prop.joinColumns[1] # joinColumnName(prop.name)

\* Person.owned, mapped by Tag.owner, resolved with one derived join column
C25_Witness ==
    /\ pc = "resolved"
    /\ <<"Person", Len(metadata["Person"].props)>> \in DerivingCollections
    /\ Len(PropertyOf(metadata["Person"], "owned").joinColumns) = 1
    /\ PropertyOf(metadata["Tag"], "owner").inversedBy = "owned"

----------------------------------------------------------------------------
(* Properties: the index difference *)

\* the names of the entries of addIndex or dropIndex
KeyNames(list) == {list[i].keyName : i \in DOMAIN list}

\* the names of the indexes and uniques the entity declares itself
DeclaredIndexNames(meta) ==
    {idxName(meta, meta.indexes[i].name,
             Flatten([k \in DOMAIN meta.indexes[i].properties |->
                        PropertyOf(meta, meta.indexes[i].properties[k]).fieldNames]), "index") :
        i \in DOMAIN meta.indexes}
    \cup {idxName(meta, meta.uniques[i].name,
             Flatten([k \in DOMAIN meta.uniques[i].properties |->
                        PropertyOf(meta, meta.uniques[i].properties[k]).fieldNames]), "unique") :
        i \in DOMAIN meta.uniques}

\* the live indexes of the table that have an entry on one of the columns
IndexesOn(table, columns) ==
    {name \in SeqToSet(IndexNames(table)) :
        \E i \in DOMAIN IndexEntries(table, name), c \in DOMAIN columns :
            IndexEntries(table, name)[i].columnName = columns[c].name}

\* the live indexes that are neither expected nor implicit
UnexpectedIndexes(meta, table) ==
    {name \in SeqToSet(IndexNames(table)) :
        name \notin expectedIndexes(meta) /\ ~isImplicitIndex(name)}

\* the live columns a difference renames to the column of a ManyToOne or
\* OneToOne property
RenamedReferences(d) ==
    [i \in DOMAIN SelectSeq(d.rename, LAMBDA c : c.to.reference \in {MANY_TO_ONE, ONE_TO_ONE}) |->
        SelectSeq(d.rename, LAMBDA c : c.to.reference \in {MANY_TO_ONE, ONE_TO_ONE})[i].from]

\* C26, as claimed: addIndex holds exactly the expected index names the live
\* table lacks, dropIndex exactly the live index names that are not expected,
\* not implicit and not on a column that is being removed, and they are disjoint
C26_IndexSetDifference ==
    pc = "update" /\ err = "none" =>
        \A e \in DOMAIN diffs :
            \A d \in {computeTableDifference(metadata[e],
                            getTable(schema, metadata[e].collection), FALSE)} :
                LET table == getTable(schema, metadata[e].collection)
                IN  /\ KeyNames(diffs[e].addIndex)
                        = expectedIndexes(metadata[e]) \ SeqToSet(IndexNames(table))
                    /\ KeyNames(diffs[e].dropIndex)
                        = UnexpectedIndexes(metadata[e], table) \ IndexesOn(table, d.remove)
                    /\ KeyNames(diffs[e].addIndex) \cap KeyNames(diffs[e].dropIndex) = {}

\* C26, amended: addIndex holds exactly the names of the indexes and uniques
\* the entity declares itself that the live table lacks; dropIndex holds
\* exactly the live index names that are not expected, not implicit and not on
\* a column that is being removed or renamed to the column of a ManyToOne or
\* OneToOne property; the two are disjoint
C26_DeclaredIndexDifference ==
    pc = "update" /\ err = "none" =>
        \A e \in DOMAIN diffs :
            \A d \in {computeTableDifference(metadata[e],
                            getTable(schema, metadata[e].collection), FALSE)} :
                LET table == getTable(schema, metadata[e].collection)
                IN  /\ KeyNames(diffs[e].addIndex)
                        = DeclaredIndexNames(metadata[e]) \ SeqToSet(IndexNames(table))
                    /\ KeyNames(diffs[e].dropIndex)
                        = UnexpectedIndexes(metadata[e], table)
                            \ IndexesOn(table, d.remove \o RenamedReferences(d))
                    /\ KeyNames(diffs[e].addIndex) \cap KeyNames(diffs[e].dropIndex) = {}

\* an update of author that adds the declared index on name, which the live
\* table lost with the column, and drops a stale index
C26_Witness ==
    /\ pc = "update" /\ err = "none"
    /\ "Author" \in DOMAIN diffs
    /\ diffs["Author"].addIndex # <<>>
    /\ \E e \in DOMAIN diffs : diffs[e].dropIndex # <<>>

----------------------------------------------------------------------------
(* Properties: the columns of a table difference *)

\* how often x is in the list
Occurrences(list, x) == Cardinality({i \in DOMAIN list : list[i] = x})

\* the columns of a property, by name
ColumnNames(prop) ==
    IF prop.reference \in {MANY_TO_ONE, ONE_TO_ONE} THEN prop.joinColumns ELSE prop.fieldNames

\* the columns of a property that the live table lacks
MissingColumns(table, prop) ==
    {i \in DOMAIN ColumnNames(prop) : ~HasColumn(table, ColumnNames(prop)[i])}

\* the sources and the targets of the renames of a difference
RenameSources(d) == [i \in DOMAIN d.rename |-> d.rename[i].from]
RenameTargets(d) == [i \in DOMAIN d.rename |-> d.rename[i].to]

\* C27: in a difference computed in non-safe mode every live column without a
\* property is in exactly one of remove and the sources of rename, every
\* column of a property that the live table lacks is in exactly one of create
\* and the targets of rename, and no live column is the source of two renames
C27_ColumnsPartitioned ==
    pc = "update" /\ err = "none" /\ ~args.safe =>
        \A e \in DOMAIN diffs :
            LET table == getTable(schema, metadata[e].collection)
                d == diffs[e]
            IN  /\ \A c \in StaleColumns(metadata[e], table) :
                    Occurrences(d.remove, c) + Occurrences(RenameSources(d), c) = 1
                /\ \A k \in DOMAIN metadata[e].props :
                    shouldHaveColumn(metadata[e], metadata[e].props[k], TRUE) =>
                        Occurrences(d.create, metadata[e].props[k])
                            + Occurrences(RenameTargets(d), metadata[e].props[k])
                        = Cardinality(MissingColumns(table, metadata[e].props[k]))
                /\ \A i \in DOMAIN d.rename, j \in DOMAIN d.rename :
                    i # j => d.rename[i].from # d.rename[j].from

\* a non-safe update of book whose difference holds a rename and a removed
\* column
C27_Witness ==
    /\ pc = "update" /\ err = "none" /\ ~args.safe
    /\ \E e \in DOMAIN diffs :
        /\ diffs[e].rename # <<>>
        /\ StaleColumns(metadata[e], getTable(schema, metadata[e].collection)) # {}

----------------------------------------------------------------------------
(* Properties: the columns added by an update *)

\* the positions in ddl of the column additions that updateTable emits for a
\* live table
ColumnAdditions(table) ==
    {i \in DOMAIN ddl : /\ ddl[i].pass = "columns" /\ ddl[i].op = "addColumn"
                        /\ ddl[i].table = table.name}

\* C28: the column additions that updateTable emits for a live table add no
\* column that the live table already has and add no column twice, also for a
\* composite foreign key of which all or only some join columns are missing
C28_AddsMissingColumnsOnce ==
    pc = "update" /\ err = "none" =>
        \A t \in DOMAIN schema :
            /\ \A i \in ColumnAdditions(schema[t]) :
                ~HasColumn(schema[t], ddl[i].columns[1])
            /\ \A i \in ColumnAdditions(schema[t]), j \in ColumnAdditions(schema[t]) :
                i # j => ddl[i].columns # ddl[j].columns

\* an update of a live table book that lacks a join column of the composite
\* foreign key and gets column additions
C28_Witness ==
    /\ pc = "update" /\ err = "none"
    /\ \E t \in DOMAIN schema :
        /\ schema[t].name = "book"
        /\ ~HasColumn(schema[t], "key_a")
        /\ ColumnAdditions(schema[t]) # {}

----------------------------------------------------------------------------
(* Properties: the clause a condition is compiled for *)

RECURSIVE LeavesOf(_)
\* the leaves of a condition tree, in the order of its keys: one per field with
\* a value, one per operator of an object with several operators, and the
\* leaves of the members of a group and of the condition under $not
LeavesOf(cond) ==
    Flatten([i \in DOMAIN cond.items |->
        LET value == cond.items[i]
        IN  IF value.key \in {"$and", "$or"}
            THEN Flatten([j \in DOMAIN value.items |-> LeavesOf(value.items[j])])
            ELSE IF value.key = "$not" THEN LeavesOf(value)
            ELSE IF getObjectKeysSize(value) > 1
            THEN [j \in DOMAIN value.items |-> value.items[j]]
            ELSE <<value>>])

RECURSIVE CompiledLeaves(_, _)
\* the basic clauses that the builder compiles into the clause of a grouping:
\* those written to the grouping, and those of the groups written to it, of
\* which the builder compiles the where clauses
CompiledLeaves(clauses, grouping) ==
    Flatten([i \in DOMAIN clauses |->
        IF clauses[i].grouping # grouping THEN <<>>
        ELSE IF clauses[i].type = "basic" THEN <<clauses[i]>>
        ELSE CompiledLeaves(clauses[i].clauses,
                            IF grouping = "on" THEN "on" ELSE "where")])

\* the calls that compiled the condition for a HAVING clause
HavingCalls == {q \in DOMAIN queries : queries[q].call = "having" /\ queries[q].err = ""}

\* C29: a condition compiled with method = 'having' adds every leaf of the
\* tree to the HAVING clause and none to the WHERE clause, also the leaves in
\* a group of several $or members, under $not and in an object with several
\* operators on one field
C29_HavingHoldsEveryLeaf ==
    \A q \in HavingCalls :
        /\ Len(CompiledLeaves(queries[q].clauses, "having")) = Len(LeavesOf(condition))
        /\ CompiledLeaves(queries[q].clauses, "where") = <<>>

\* a condition with $not compiled for a HAVING clause
C29_Witness ==
    /\ HavingCalls # {}
    /\ \E node \in NodesIn(condition) : node.key = "$not"

----------------------------------------------------------------------------
(* Properties: the order of the discovered entities *)

\* the resolved metadata: every entity with its properties by name, of each
\* the names of its columns, its pivot table, its fixed order and what it is
\* the inverse of
ResolvedGraph(md) ==
    [e \in DOMAIN md |->
        {[name |-> prop.name, reference |-> prop.reference, type |-> prop.type,
          owner |-> prop.owner, fieldNames |-> prop.fieldNames,
          joinColumns |-> prop.joinColumns,
          inverseJoinColumns |-> prop.inverseJoinColumns,
          referencedColumnNames |-> prop.referencedColumnNames,
          pivotTable |-> prop.pivotTable, fixedOrder |-> prop.fixedOrder,
          mappedBy |-> prop.mappedBy, inversedBy |-> prop.inversedBy] :
            prop \in SeqToSet(md[e].props)}]

\* discover() resolves the declarations to the same metadata whichever of the
\* entities it takes first
OrderIndependent(md, filtered) ==
    \A one \in {discover(md, filtered)}, other \in {discover(md, Reverse(filtered))} :
        ResolvedGraph(one) = ResolvedGraph(other)

\* the properties of every class after the inheritance passes, by name, with
\* their type and their nullable and inherited flags
MergedProperties(md) ==
    [e \in DOMAIN md |->
        {[name |-> prop.name, type |-> prop.type, nullable |-> prop.nullable,
          inherited |-> prop.inherited] : prop \in SeqToSet(md[e].props)}]

\* the inheritance passes merge the declarations to the same properties
\* whichever of the entities they take first
MergeOrderIndependent(md, filtered) ==
    \A one \in {discoverInheritance(md, filtered)},
       other \in {discoverInheritance(md, Reverse(filtered))} :
        MergedProperties(one) = MergedProperties(other)

\* discover() over the entities found: the inheritance pass and the passes
\* over the base entities for a hierarchy of classes, the naming passes, the
\* wiring and the pivot entities for related entities
InitDiscover == InitInherit \/ InitResolve

NextDiscover ==
    \/ InitSingleTableInheritance
    \/ DefineBaseEntityProperties
    \/ InitFieldNames
    \/ AutoWire
    \/ ProcessEntity

SpecDiscover == InitDiscover /\ [][NextDiscover]_vars

\* C30: the resolved metadata (column names, pivot tables and pivot entities,
\* fixed-order flags, inversedBy wiring, and the properties merged into the
\* root of a single table inheritance with their nullable and inherited flags)
\* is the same for every order in which discover() takes the discovered
\* entities: what its passes make of the declarations in the order drawn is
\* what they make of them in the other order
C30_DiscoveryOrderIndependent ==
    /\ pc = "discovered" => OrderIndependent(metadata, entities)
    /\ pc = "inheritance" /\ queue = entities =>
            MergeOrderIndependent(metadata, entities)

\* the hierarchy Base, Employee, Manager discovered with Manager first, where
\* both subclasses declare level: the root holds the level of Employee
C30_Witness ==
    /\ pc = "based"
    /\ {"Employee", "Manager"} \subseteq DOMAIN metadata
    /\ \A e \in {"Employee", "Manager"} :
        \E i \in DOMAIN metadata[e].declared : metadata[e].declared[i].name = "level"
    /\ metadata["Base"].discriminatorColumn # ""
    /\ HasProperty(metadata["Base"], "level")
    /\ PropertyOf(metadata["Base"], "level").type = LevelType("Employee")
    /\ entities[1] = "Manager"

====
